---------------------------- MODULE Spec2Model ----------------------------
(***************************************************************************)
(* A model of the social-signals ETL pipeline: the transform stage         *)
(* (Intermediate_table.py) that conforms the staged tables and generates   *)
(* the calendar tables, and the fact assembly (Dim&fact.py) that builds    *)
(* the dimension tables and the fact table fact_order_items.               *)
(*                                                                         *)
(* Conventions.  A string is a sequence of one-character strings, so that  *)
(* concatenation, splitting, joining and comparison are the operations the *)
(* code performs.  A nullable cell is Null (the empty tuple) or Some(v)    *)
(* (the one-element tuple <<v>>).  A table is a sequence of records.       *)
(***************************************************************************)
EXTENDS Integers, Sequences, FiniteSets

\* ------------------------------------------------------------------ bounds

\* Longest staging table enumerated for the dataset under study.
MaxRows == 2

\* The most statements of one run that find the store unreachable.
MaxFaults == 2

\* ---------------------------------------------------------- nullable cells

Null == <<>>

Some(v) == <<v>>

IsNull(c) == c = Null

Val(c) == c[1]

\* ------------------------------------------------------------------ strings

\* The characters that occur in the model, in code-point order.
Alphabet ==
    << " ", ",", "-", "0", "1", "2", "3", "4", "5", "6", "7", "8", "9", ":",
       "A", "B", "C", "D", "E", "F", "G", "H", "I", "J", "K", "L", "M", "N",
       "O", "P", "Q", "R", "S", "T", "U", "V", "W", "X", "Y", "Z", "_",
       "a", "b", "c", "d", "e", "f", "g", "h", "i", "j", "k", "l", "m", "n",
       "o", "p", "q", "r", "s", "t", "u", "v", "w", "x", "y", "z" >>

CharRank(c) == CHOOSE i \in 1..Len(Alphabet) : Alphabet[i] = c

Lowers == << "a", "b", "c", "d", "e", "f", "g", "h", "i", "j", "k", "l", "m",
             "n", "o", "p", "q", "r", "s", "t", "u", "v", "w", "x", "y", "z" >>

Uppers == << "A", "B", "C", "D", "E", "F", "G", "H", "I", "J", "K", "L", "M",
             "N", "O", "P", "Q", "R", "S", "T", "U", "V", "W", "X", "Y", "Z" >>

IsLower(c) == \E i \in 1..Len(Lowers) : Lowers[i] = c

IsUpper(c) == \E i \in 1..Len(Uppers) : Uppers[i] = c

IsCased(c) == IsLower(c) \/ IsUpper(c)

ToUpper(c) == IF IsLower(c) THEN Uppers[CHOOSE i \in 1..Len(Lowers) : Lowers[i] = c] ELSE c

ToLower(c) == IF IsUpper(c) THEN Lowers[CHOOSE i \in 1..Len(Uppers) : Uppers[i] = c] ELSE c

\* Python's str < str: lexicographic by code point, a proper prefix first.
StrLess(a, b) ==
    LET lt[i \in 1..(Len(a) + 1)] ==
            IF i > Len(a) THEN i <= Len(b)
            ELSE IF i > Len(b) THEN FALSE
            ELSE IF a[i] = b[i] THEN lt[i + 1]
            ELSE CharRank(a[i]) < CharRank(b[i])
    IN  lt[1]

\* s.replace(old, new) for a single character old.
StrReplaceChar(s, old, new) == [i \in 1..Len(s) |-> IF s[i] = old THEN new ELSE s[i]]

\* str.title(): a cased character is upper case after an uncased one (or at
\* the start) and lower case after a cased one.
StrTitle(s) ==
    [i \in 1..Len(s) |->
        IF i = 1 \/ ~IsCased(s[i - 1]) THEN ToUpper(s[i]) ELSE ToLower(s[i])]

\* Whether sep occurs in s at position i.
OccursAt(s, sep, i) ==
    /\ i + Len(sep) - 1 <= Len(s)
    /\ \A k \in 1..Len(sep) : s[i + k - 1] = sep[k]

\* s.split(sep): the pieces of s between the non-overlapping occurrences of
\* sep, scanned from the left.
StrSplit(s, sep) ==
    LET go[i \in 1..(Len(s) + 1)] ==
            \* <<pieces closed so far, piece being read>> from position i on
            IF i > Len(s) THEN << <<>> >>
            ELSE IF OccursAt(s, sep, i)
                 THEN << <<>> >> \o go[i + Len(sep)]
                 ELSE LET rest == go[i + 1]
                      IN  << <<s[i]>> \o rest[1] >> \o Tail(rest)
    IN  go[1]

\* sep.join(parts)
StrJoin(sep, parts) ==
    LET j[i \in 0..Len(parts)] ==
            IF i = 0 THEN <<>>
            ELSE IF i = 1 THEN parts[1]
            ELSE j[i - 1] \o sep \o parts[i]
    IN  j[Len(parts)]

Digits == << "0", "1", "2", "3", "4", "5", "6", "7", "8", "9" >>

\* str(n) for a natural number n.
IntToStr(n) ==
    LET len == CHOOSE d \in 1..9 : n < 10 ^ d /\ (d = 1 \/ n >= 10 ^ (d - 1))
    IN  [k \in 1..len |-> Digits[((n \div 10 ^ (len - k)) % 10) + 1]]

DigitVal(c) == (CHOOSE i \in 1..10 : Digits[i] = c) - 1

\* int(s) for a string of decimal digits.
StrToInt(s) ==
    LET v[i \in 0..Len(s)] == IF i = 0 THEN 0 ELSE v[i - 1] * 10 + DigitVal(s[i])
    IN  v[Len(s)]

\* strftime's zero-padded two-digit field (%m, %d, %H, %M, %S).
Pad2(n) == IF n < 10 THEN << "0" >> \o IntToStr(n) ELSE IntToStr(n)

\* s.replace(old, "") for a single character old.
StrRemoveChar(s, old) ==
    LET r[i \in 0..Len(s)] ==
            IF i = 0 THEN <<>>
            ELSE IF s[i] = old THEN r[i - 1] ELSE Append(r[i - 1], s[i])
    IN  r[Len(s)]

\* ----------------------------------------------------- dates and timestamps

\* A date is [y, m, d]; a timestamp is [y, m, d, hh, mi, ss].

MkDate(y, m, d) == [y |-> y, m |-> m, d |-> d]

MkTs(y, m, d, hh, mi, ss) == [y |-> y, m |-> m, d |-> d, hh |-> hh, mi |-> mi, ss |-> ss]

IsLeapYear(y) == (y % 4 = 0 /\ y % 100 # 0) \/ y % 400 = 0

DaysInMonth(y, m) ==
    IF m = 2 THEN (IF IsLeapYear(y) THEN 29 ELSE 28)
    ELSE IF m \in {4, 6, 9, 11} THEN 30 ELSE 31

\* Whether the text of x (its fields as written, "y-m-d hh:mi:ss") parses as
\* a timestamp: "2017-13-45 00:00:00" does not.
ParsesAsTimestamp(x) ==
    /\ x.m \in 1..12 /\ x.d \in 1..DaysInMonth(x.y, x.m)
    /\ x.hh \in 0..23 /\ x.mi \in 0..59 /\ x.ss \in 0..59

\* The day number of a date or timestamp (days since 1970-01-01), the
\* integer a datetime value is stored as, at day granularity.
ToDays(t) ==
    LET yy  == IF t.m <= 2 THEN t.y - 1 ELSE t.y
        era == yy \div 400
        yoe == yy - era * 400
        mp  == IF t.m > 2 THEN t.m - 3 ELSE t.m + 9
        doy == (153 * mp + 2) \div 5 + t.d - 1
        doe == yoe * 365 + yoe \div 4 - yoe \div 100 + doy
    IN  era * 146097 + doe - 719468

\* The date of a day number: the year, month and day fields of a datetime.
FromDays(n) ==
    LET z   == n + 719468
        era == z \div 146097
        doe == z - era * 146097
        yoe == (doe - doe \div 1460 + doe \div 36524 - doe \div 146096) \div 365
        doy == doe - (365 * yoe + yoe \div 4 - yoe \div 100)
        mp  == (5 * doy + 2) \div 153
        d   == doy - (153 * mp + 2) \div 5 + 1
        m   == IF mp < 10 THEN mp + 3 ELSE mp - 9
    IN  MkDate(IF m <= 2 THEN yoe + era * 400 + 1 ELSE yoe + era * 400, m, d)

\* datetime.weekday(): Monday is 0 (1970-01-01 was a Thursday).
Weekday(t) == (ToDays(t) + 3) % 7

DayNames == << "Monday", "Tuesday", "Wednesday", "Thursday", "Friday", "Saturday", "Sunday" >>

MonthNames == << "January", "February", "March", "April", "May", "June", "July",
                 "August", "September", "October", "November", "December" >>

\* MySQL DATE(ts): the calendar day of a nullable timestamp.
SqlDate(c) == IF IsNull(c) THEN Null ELSE Some(MkDate(Val(c).y, Val(c).m, Val(c).d))

\* MySQL HOUR(ts), MINUTE(ts)
SqlHour(c) == IF IsNull(c) THEN Null ELSE Some(Val(c).hh)

SqlMinute(c) == IF IsNull(c) THEN Null ELSE Some(Val(c).mi)

\* MySQL DATEDIFF(a, b): a's day minus b's day, NULL when either is NULL.
DateDiff(a, b) == IF IsNull(a) \/ IsNull(b) THEN Null ELSE Some(ToDays(Val(a)) - ToDays(Val(b)))

\* SQL comparisons in three-valued logic: Null is UNKNOWN.
SqlEq(a, b) == IF IsNull(a) \/ IsNull(b) THEN Null ELSE Some(Val(a) = Val(b))

SqlGt(a, b) == IF IsNull(a) \/ IsNull(b) THEN Null ELSE Some(Val(a) > Val(b))

SqlLt(a, b) == IF IsNull(a) \/ IsNull(b) THEN Null ELSE Some(Val(a) < Val(b))

\* A WHEN or ON condition selects only when it is TRUE (not FALSE, not UNKNOWN).
SqlTrue(c) == c = Some(TRUE)

\* ---------------------------------------------------------------- calendar

start_date == MkDate(2016, 4, 9)

end_date == MkDate(2018, 10, 17)

\* A range that stops the day before its end.
date_range_open ==
    [k \in 1..(ToDays(end_date) - ToDays(start_date)) |-> FromDays(ToDays(start_date) + k - 1)]

\* pd.date_range(start, end, freq='D'): start, start + 1 day, ... up to end.
date_range ==
    [k \in 1..(ToDays(end_date) - ToDays(start_date) + 1) |-> FromDays(ToDays(start_date) + k - 1)]

\* A season that follows the quarter of the year.
SeasonByQuarter(month) ==
    IF month \in {1, 2, 3} THEN "Winter"
    ELSE IF month \in {4, 5, 6} THEN "Spring"
    ELSE IF month \in {7, 8, 9} THEN "Summer"
    ELSE "Fall"

\* Lines 265-269
Season(month) ==
    IF month \in {12, 1, 2} THEN "Winter"
    ELSE IF month \in {3, 4, 5} THEN "Spring"
    ELSE IF month \in {6, 7, 8} THEN "Summer"
    ELSE "Fall"

\* A key with the day first: int(x.strftime('%d%m%Y')).
DateKeyDayFirst(x) == StrToInt(Pad2(x.d) \o Pad2(x.m) \o IntToStr(x.y))

\* int(x.strftime('%Y%m%d'))
DateKeyOf(x) == StrToInt(IntToStr(x.y) \o Pad2(x.m) \o Pad2(x.d))

DateRow(x) ==
    [ Date      |-> x,
      DateKey   |-> DateKeyOf(x),
      Day       |-> x.d,
      DayName   |-> DayNames[Weekday(x) + 1],
      Month     |-> x.m,
      MonthName |-> MonthNames[x.m],
      Quarter   |-> (x.m - 1) \div 3 + 1,
      Year      |-> x.y,
      DayOfWeek |-> Weekday(x),
      IsWeekend |-> IF Weekday(x) \in {5, 6} THEN 1 ELSE 0,
      Season    |-> Season(x.m) ]

\* The frame has one row per element of date_range, in its order.
date_df == [i \in 1..Len(date_range) |-> DateRow(date_range[i])] \o <<>>

\* pd.date_range(start="00:00:00", end="23:59:59", freq='T').time: the times
\* of day from the start, one minute apart, that are not after the end.
time_range ==
    LET first == 0
        last  == 23 * 3600 + 59 * 60 + 59
    IN  [k \in 1..((last - first) \div 60 + 1) |->
            LET s == first + 60 * (k - 1)
            IN  [hh |-> s \div 3600, mi |-> (s % 3600) \div 60, ss |-> s % 60]]

\* str(time): "HH:MM:SS"
TimeToStr(t) == Pad2(t.hh) \o << ":" >> \o Pad2(t.mi) \o << ":" >> \o Pad2(t.ss)

\* A key of the hour and the minute alone.
TimeKeyOfHourMinute(t) == StrToInt(Pad2(t.hh) \o Pad2(t.mi))

\* Time.astype(str).str.replace(":", "").str.replace(".", "").astype(int)
TimeKeyOf(t) == StrToInt(StrRemoveChar(StrRemoveChar(TimeToStr(t), ":"), "."))

\* pd.cut with its default right=True: each bin holds its right edge and not
\* its left one.
TimeOfDayRightClosed(hour) ==
    LET bins   == << 0, 6, 12, 18, 24 >>
        labels == << "Night", "Morning", "Afternoon", "Evening" >>
        hit    == {i \in 1..4 : bins[i] < hour /\ hour <= bins[i + 1]}
    IN  IF hit = {} THEN Null ELSE Some(labels[CHOOSE i \in hit : TRUE])

\* pd.cut(Hour, bins=[0, 6, 12, 18, 24], labels=[...], right=False)
TimeOfDay(hour) ==
    LET bins   == << 0, 6, 12, 18, 24 >>
        labels == << "Night", "Morning", "Afternoon", "Evening" >>
        hit    == {i \in 1..4 : bins[i] <= hour /\ hour < bins[i + 1]}
    IN  IF hit = {} THEN Null ELSE Some(labels[CHOOSE i \in hit : TRUE])

TimeRow(t) ==
    [ Time      |-> t,
      TimeKey   |-> TimeKeyOf(t),
      Hour      |-> t.hh,
      Minute    |-> t.mi,
      Second    |-> t.ss,
      AM_PM     |-> IF t.hh < 12 THEN "AM" ELSE "PM",
      TimeOfDay |-> TimeOfDay(t.hh) ]

\* The frame has one row per element of time_range, in its order.
times_df == [i \in 1..Len(time_range) |-> TimeRow(time_range[i])] \o <<>>

\* ------------------------------------------------------- sequence helpers

Range(s) == {s[i] : i \in 1..Len(s)}

\* sorted(s): a stable sort of s by the strict order Less.
Sorted(s, Less(_, _)) ==
    LET ins(acc, x) ==
            LET k == Cardinality({i \in 1..Len(acc) : ~Less(x, acc[i])})
            IN  SubSeq(acc, 1, k) \o << x >> \o SubSeq(acc, k + 1, Len(acc))
        f[i \in 0..Len(s)] == IF i = 0 THEN <<>> ELSE ins(f[i - 1], s[i])
    IN  f[Len(s)]

\* Series.unique(): the distinct values in order of first appearance.
Unique(s) ==
    LET f[i \in 0..Len(s)] ==
            IF i = 0 THEN <<>>
            ELSE IF s[i] \in Range(f[i - 1]) THEN f[i - 1] ELSE Append(f[i - 1], s[i])
    IN  f[Len(s)]

\* The concatenation of F(s[1]), ..., F(s[n]).
FlatMap(s, F(_)) ==
    LET f[i \in 0..Len(s)] == IF i = 0 THEN <<>> ELSE f[i - 1] \o F(s[i])
    IN  f[Len(s)]

Map(s, F(_)) == [i \in 1..Len(s) |-> F(s[i])]

\* The sum of F over the elements of s.
SumSeq(s, F(_)) ==
    LET f[i \in 0..Len(s)] == IF i = 0 THEN 0 ELSE f[i - 1] + F(s[i])
    IN  f[Len(s)]

IntLess(a, b) == a < b

\* An aggregation that keeps the first value of the group.
AggFirst(grp, col) == grp[1][col]

\* The "sum" aggregation of column col over the rows of a group.
AggSum(grp, col) == SumSeq(grp, LAMBDA r : r[col])

\* A transformer returns a frame, or None after a caught exception.
Frame(rows) == [ok |-> TRUE, df |-> rows]

None == [ok |-> FALSE, df |-> <<>>]

\* Whether the frame has the columns cols: df[c] raises KeyError for a
\* column the frame does not have, and the transformer returns None.
HasColumns(df, cols) == \A k \in 1..Len(df) : cols \subseteq DOMAIN df[k]

\* ------------------------------------------------- dimension transformers

\* Monetary amounts (payment_value, price, shipping_cost) are whole numbers
\* of cents: sums are exact.

\* df.groupby("payment_id").agg({...}).reset_index()
transform_payments_table(df) ==
    IF ~HasColumns(df, { "payment_sequential", "payment_installments", "payment_value", "payment_type", "order_id" })
    THEN None
    ELSE
        LET typed == [i \in 1..Len(df) |->
                        [ payment_id           |-> df[i].order_id,
                          payment_sequential   |-> df[i].payment_sequential,
                          payment_installments |-> df[i].payment_installments,
                          payment_type         |-> StrTitle(StrReplaceChar(df[i].payment_type, "_", " ")),
                          payment_value        |-> df[i].payment_value ]]
            keys  == Sorted(Unique(Map(typed, LAMBDA r : r.payment_id)), StrLess)
            grp(k) == SelectSeq(typed, LAMBDA r : r.payment_id = k)
            agg(k) ==
                [ payment_id           |-> k,
                  payment_sequential   |-> StrJoin(<< ",", " " >>,
                        Map(Sorted(Map(grp(k), LAMBDA r : r.payment_sequential), IntLess), IntToStr)),
                  payment_installments |-> StrJoin(<< ",", " " >>,
                        Map(Sorted(Map(grp(k), LAMBDA r : r.payment_installments), IntLess), IntToStr)),
                  payment_type         |-> StrJoin(<< ",", " " >>,
                        Sorted(Map(grp(k), LAMBDA r : r.payment_type), StrLess)),
                  payment_value        |-> AggSum(grp(k), "payment_value") ]
        IN  Frame(Map(keys, agg))

\* The column names of the staging tables for which "_date" in col.lower()
\* holds; estimated_time_delivery is not among them.
DateNamedColumns ==
    { "order_date", "order_approved_date", "pickup_date", "delivered_date",
      "feedback_form_sent_date", "feedback_answer_date", "pickup_limit_date" }

\* pd.to_datetime(errors="coerce") on one cell: a datetime value or NaT is
\* left as it is, text that does not parse becomes NaT.
ToDatetimeCoerce(c) ==
    IF IsNull(c) THEN Null
    ELSE IF ParsesAsTimestamp(Val(c)) THEN c ELSE Null

\* A frame all of whose cells in the coerced columns are datetime values or
\* NaT comes back as it is.
transform_date_columns(df) ==
    IF \A k \in 1..Len(df) : \A col \in DateNamedColumns \cap DOMAIN df[k] :
           ToDatetimeCoerce(df[k][col]) = df[k][col]
    THEN df
    ELSE [k \in 1..Len(df) |->
            [col \in DOMAIN df[k] |->
                IF col \in DateNamedColumns THEN ToDatetimeCoerce(df[k][col])
                ELSE df[k][col]]] \o <<>>

\* A feedback key without the running count: every row numbered 0.
CumCountNone(df, i) == 0

\* df.groupby('feedback_id').cumcount(): for each row, the number of earlier
\* rows with the same feedback_id.
CumCount(df, i) == Cardinality({j \in 1..(i - 1) : df[j].feedback_id = df[i].feedback_id})

transform_feedback_table(df) ==
    IF ~HasColumns(df, { "feedback_id", "feedback_score" })
    THEN None
    ELSE
        Frame(transform_date_columns(
            [i \in 1..Len(df) |->
                [df[i] EXCEPT !.feedback_id = IntToStr(CumCount(df, i)) \o << "_" >> \o df[i].feedback_id]]))

transform_products_table(df) ==
    IF ~HasColumns(df, { "product_id", "product_category" })
    THEN None
    ELSE
        Frame([i \in 1..Len(df) |->
                [df[i] EXCEPT !.product_category =
                    StrTitle(StrReplaceChar(df[i].product_category, "_", " "))]])

transform_sellers_table(df) ==
    IF ~HasColumns(df, { "seller_id", "seller_zip_code", "seller_city", "seller_state" })
    THEN None
    ELSE
        Frame([i \in 1..Len(df) |->
                [ seller_id       |-> df[i].seller_id,
                  seller_zip_code |-> IntToStr(df[i].seller_zip_code),
                  seller_city     |-> StrTitle(df[i].seller_city),
                  seller_state    |-> StrTitle(df[i].seller_state) ]])

\* An aggregate that joins every value of the group, repeated ones too.
AggJoinAll(grp, col) == StrJoin(<< ",", " " >>, [k \in 1..Len(grp) |-> grp[k][col]])

\* lambda x: ', '.join(x.unique()): the distinct values of the column in the
\* group, in order of first appearance, joined by ', '.
AggUniqueJoin(grp, col) ==
    StrJoin(<< ",", " " >>, Unique([k \in 1..Len(grp) |-> grp[k][col]]))

transform_users_table(df) ==
    IF ~HasColumns(df, { "user_name", "customer_zip_code", "customer_city", "customer_state" })
    THEN None
    ELSE
        LET typed == [i \in 1..Len(df) |->
                        [ user_id       |-> df[i].user_name,
                          user_zip_code |-> IntToStr(df[i].customer_zip_code),
                          user_city     |-> StrTitle(df[i].customer_city),
                          user_state    |-> StrTitle(df[i].customer_state) ]]
            keys  == Sorted(Unique(Map(typed, LAMBDA r : r.user_id)), StrLess)
            grp(k) == SelectSeq(typed, LAMBDA r : r.user_id = k)
            agg(k) ==
                [ user_id       |-> k,
                  user_zip_code |-> AggUniqueJoin(grp(k), "user_zip_code"),
                  user_city     |-> AggUniqueJoin(grp(k), "user_city"),
                  user_state    |-> AggUniqueJoin(grp(k), "user_state") ]
        IN  Frame(Map(keys, agg))

\* ------------------------------------------- order and line-item transformers

\* df.merge(df_feedbacks[['order_id', 'feedback_id']], on='order_id', how='left'):
\* every order row once per feedback row of its order, in the order of the
\* two frames; an order without feedback once, with a missing feedback_id.
transform_orders_table(df, df_feedbacks) ==
    IF ~HasColumns(df, { "order_id", "user_name", "order_status" })
       \/ ~HasColumns(df_feedbacks, { "order_id", "feedback_id" })
    THEN None
    ELSE
        LET typed(r) ==
                [ order_id                |-> r.order_id,
                  user_id                 |-> r.user_name,
                  order_status            |-> r.order_status,
                  order_date              |-> r.order_date,
                  order_approved_date     |-> r.order_approved_date,
                  pickup_date             |-> r.pickup_date,
                  delivered_date          |-> r.delivered_date,
                  estimated_time_delivery |-> r.estimated_time_delivery,
                  feedback_id             |-> Null ]
            merged(r) ==
                LET m == SelectSeq(df_feedbacks, LAMBDA f : f.order_id = r.order_id)
                IN  IF m = <<>> THEN << typed(r) >>
                    ELSE Map(m, LAMBDA f : [typed(r) EXCEPT !.feedback_id = Some(f.feedback_id)])
        IN  Frame(FlatMap(transform_date_columns(df), merged))

\* A quantity that counts the distinct item numbers.
QuantityDistinct(order_item_id) ==
    Cardinality(Range(StrSplit(order_item_id, << ",", " " >>)))

\* df["order_item_id"].apply(lambda x: len(x.split(", ")))
Quantity(order_item_id) == Len(StrSplit(order_item_id, << ",", " " >>))

PairLess(a, b) == StrLess(a[1], b[1]) \/ (a[1] = b[1] /\ StrLess(a[2], b[2]))

transform_order_item_table(df) ==
    IF ~HasColumns(df, { "price", "shipping_cost", "product_id", "seller_id", "order_id", "order_item_id" })
    THEN None
    ELSE
        LET \* df["ProductSellerPair"] = product_id + "-" + seller_id
            paired == [i \in 1..Len(df) |->
                        [ order_id          |-> df[i].order_id,
                          ProductSellerPair |-> df[i].product_id \o << "-" >> \o df[i].seller_id,
                          order_item_id     |-> df[i].order_item_id,
                          price             |-> df[i].price,
                          shipping_cost     |-> df[i].shipping_cost ]]
            keys   == Sorted(Unique(Map(paired, LAMBDA r : << r.order_id, r.ProductSellerPair >>)), PairLess)
            grp(k) == SelectSeq(paired, LAMBDA r : << r.order_id, r.ProductSellerPair >> = k)
            agg(k) ==
                [ order_id          |-> k[1],
                  ProductSellerPair |-> k[2],
                  order_item_id     |-> StrJoin(<< ",", " " >>,
                        Map(Sorted(Map(grp(k), LAMBDA r : r.order_item_id), IntLess), IntToStr)),
                  price             |-> AggSum(grp(k), "price"),
                  shipping_cost     |-> AggSum(grp(k), "shipping_cost") ]
            grouped == Map(keys, agg)
            \* ProductSellerPair.str.split("-", expand=True): one column per piece,
            \* as many columns as the longest split
            parts(r) == StrSplit(r.ProductSellerPair, << "-" >>)
            ncols  == IF grouped = <<>> THEN 0
                      ELSE CHOOSE n \in {Len(parts(grouped[i])) : i \in 1..Len(grouped)} :
                              \A i \in 1..Len(grouped) : Len(parts(grouped[i])) <= n
            final(r) ==
                [ order_id      |-> r.order_id,
                  order_item_id |-> r.order_item_id,
                  price         |-> r.price,
                  shipping_cost |-> r.shipping_cost,
                  product_id    |-> parts(r)[1],
                  seller_id     |-> parts(r)[2],
                  quantity      |-> Quantity(r.order_item_id) ]
        IN  \* assigning the split to two columns raises unless it has two columns
            IF ncols # 2 THEN None ELSE Frame(Map(grouped, final))

\* ------------------------------------------------------------------- state

VARIABLES
    staging,      \* the staging schema: dataset name -> rows
    tdb,          \* the transform schema: table name -> rows (see DataTables)
    texists,      \* the tables that exist in the transform schema
    pkeys,        \* the tables of the transform schema with a primary key
    feedback_df,  \* main's transformed_feedback_df
    pc,           \* the statement the running script is at
    ds_idx,       \* Intermediate_table.main: index of the dataset being processed
    later_run,    \* whether the running script has completed a run before
    snap,         \* the transform schema as the previous run left it
    faults,       \* the statements of the run that could not reach the store
    csv,          \* fullload: the frames read from the CSV files, table name -> rows
    sexists,      \* the tables that exist in the staging schema
    page          \* Dashboard: what the page shows so far, in order

vars == << staging, tdb, texists, pkeys, feedback_df, pc, ds_idx, later_run, snap, faults,
          csv, sexists, page >>

\* The datasets of Intermediate_table.main, in the order of the dictionary.
DatasetNames ==
    << "payment_dataset", "feedback_dataset", "products_dataset", "seller_dataset",
       "user_dataset", "order_item_dataset", "order_dataset" >>

\* The tables of the staging schema.
StagingTables == Range(DatasetNames)

\* No CSV file: the directory of the raw loader outside its runs.
NoFiles == [name \in StagingTables |-> <<>>]

TargetTable(name) ==
    CASE name = "payment_dataset"    -> "payment_d"
      [] name = "feedback_dataset"   -> "feedback_d"
      [] name = "products_dataset"   -> "products_d"
      [] name = "seller_dataset"     -> "sellers_d"
      [] name = "user_dataset"       -> "users_d"
      [] name = "order_item_dataset" -> "order_item_d"
      [] name = "order_dataset"      -> "orders_d"

DimTables == { "dim_users", "dim_feedbacks", "dim_payments", "dim_products", "dim_sellers" }

TableNames ==
    { "payment_d", "feedback_d", "products_d", "sellers_d", "users_d", "order_item_d",
      "orders_d", "date_d", "times_d", "fact_order_items" } \cup DimTables

CalendarTables == { "date_d", "times_d" }

\* The tables whose rows the state records.  The calendar tables are written
\* only by create_date_and_time_tables, and only with the frames date_df and
\* times_df, which do not depend on any input: their rows are those frames
\* whenever they exist (see RowsOf).
DataTables == TableNames \ CalendarTables

\* The tables the foreign keys of fact_order_items reference.
Referenced == DimTables \cup { "date_d", "times_d" }

\* MySQL refuses to drop a table that a foreign key of another table references.
CanDrop(t, existing) == ~(t \in Referenced /\ "fact_order_items" \in existing)

\* The transform of a dataset without dependencies.
Transform(name, df) ==
    CASE name = "payment_dataset"    -> transform_payments_table(df)
      [] name = "feedback_dataset"   -> transform_feedback_table(df)
      [] name = "products_dataset"   -> transform_products_table(df)
      [] name = "seller_dataset"     -> transform_sellers_table(df)
      [] name = "user_dataset"       -> transform_users_table(df)
      [] name = "order_item_dataset" -> transform_order_item_table(df)

\* fetch_data: SELECT * FROM the staging table.
fetch_data(stg, name) == stg[name]

\* A load that appends the frame to the table it finds (if_exists="append").
load_data_append(db, df, table) ==
    [ rows   |-> [db.rows EXCEPT ![table] = @ \o df],
      exists |-> db.exists \cup {table},
      keys   |-> db.keys ]

\* df.to_sql(table, if_exists="replace"): the table is dropped if it exists,
\* created again and filled with the frame; a failure is logged and leaves
\* the schema as it is.  db is [rows, exists, keys].
load_data(db, df, table) ==
    IF table \in db.exists /\ ~CanDrop(table, db.exists) THEN db
    ELSE [ rows   |-> [db.rows EXCEPT ![table] = df],
           exists |-> db.exists \cup {table},
           keys   |-> db.keys \ {table} ]

Db == [rows |-> tdb, exists |-> texists, keys |-> pkeys]

SetDb(db) ==
    \E d \in { db } :
        /\ tdb' = d.rows
        /\ texists' = d.exists
        /\ pkeys' = d.keys

\* ------------------------------------------------ Intermediate_table.main

\* Lines 316-328: the feedback dataset is fetched, transformed and loaded
\* first; main returns when its transform gives None.
FeedbackFirst ==
    /\ pc = "feedback"
    /\ \E t \in { transform_feedback_table(fetch_data(staging, "feedback_dataset")) } :
           IF t.ok
           THEN /\ feedback_df' = t.df
                /\ SetDb(load_data(Db, t.df, "feedback_d"))
                /\ pc' = "loop"
           ELSE /\ pc' = "done"
                /\ UNCHANGED << feedback_df, tdb, texists, pkeys >>
    /\ ds_idx' = 1
    /\ UNCHANGED << staging, later_run, snap, csv, sexists, page, faults >>

\* A loop that a dataset without a frame ends.
StopWhenFailed(ok, k) ==
    IF ~ok THEN [pc |-> "done", idx |-> k]
    ELSE IF k < Len(DatasetNames) THEN [pc |-> "loop", idx |-> k + 1]
    ELSE [pc |-> "calendar", idx |-> k]

\* Lines 331-359: where main goes after dataset k, loaded (ok) or skipped
\* (continue): to the next dataset, and after the last to the calendar.
Continue(ok, k) ==
    IF k < Len(DatasetNames) THEN [pc |-> "loop", idx |-> k + 1]
    ELSE [pc |-> "calendar", idx |-> k]

\* Lines 336-348: the transform of the dataset being processed.
TransformDataset(name) ==
    IF name = "order_dataset"
    THEN transform_orders_table(fetch_data(staging, name), feedback_df)
    ELSE Transform(name, fetch_data(staging, name))

\* Lines 331-359: one iteration of the loop over the datasets.
ProcessDataset ==
    /\ pc = "loop"
    /\ \E t \in { TransformDataset(DatasetNames[ds_idx]) } :
           /\ IF t.ok THEN SetDb(load_data(Db, t.df, TargetTable(DatasetNames[ds_idx])))
              ELSE UNCHANGED << tdb, texists, pkeys >>
           /\ pc' = Continue(t.ok, ds_idx).pc
           /\ ds_idx' = Continue(t.ok, ds_idx).idx
    /\ UNCHANGED << staging, feedback_df, later_run, snap, csv, sexists, page, faults >>

\* The rows of a table of the transform schema.
RowsOf(db, t) ==
    IF t \notin db.exists THEN <<>>
    ELSE IF t = "date_d" THEN date_df
    ELSE IF t = "times_d" THEN times_df
    ELSE db.rows[t]

\* date_df.to_sql("date_d", if_exists="replace") and the same for times_df:
\* the table is dropped if it exists and created again, without its key.
ReplaceCalendarTable(db, t) ==
    [db EXCEPT !.exists = @ \cup {t}, !.keys = @ \ {t}]

\* Lines 246-293: date_d is replaced, then times_d; an exception ends the
\* function where it is raised.
create_date_and_time_tables(db) ==
    IF "date_d" \in db.exists /\ ~CanDrop("date_d", db.exists) THEN db
    ELSE LET d1 == ReplaceCalendarTable(db, "date_d")
         IN  IF "times_d" \in d1.exists /\ ~CanDrop("times_d", d1.exists) THEN d1
             ELSE ReplaceCalendarTable(d1, "times_d")

CreateCalendar ==
    /\ pc = "calendar"
    /\ SetDb(create_date_and_time_tables(Db))
    /\ pc' = "keys"
    /\ UNCHANGED << staging, feedback_df, ds_idx, later_run, snap, csv, sexists, page, faults >>

\* Whether column col of the rows can be made the primary key.
KeyUnique(rows, col) == Cardinality({rows[a][col] : a \in 1..Len(rows)}) = Len(rows)

\* ALTER TABLE t ADD PRIMARY KEY (col) succeeds on an existing table without
\* a primary key whose col values are distinct.
CanAddKey(db, t, col) ==
    /\ t \in db.exists
    /\ t \notin db.keys
    /\ KeyUnique(RowsOf(db, t), col)

\* Lines 295-303: the two statements run in turn; the first that fails ends
\* the function.  (The connection is taken to execute a statement given as
\* a string.)
add_primary_keys(db) ==
    IF ~CanAddKey(db, "date_d", "DateKey") THEN db
    ELSE LET d1 == [db EXCEPT !.keys = @ \cup {"date_d"}]
         IN  IF ~CanAddKey(d1, "times_d", "TimeKey") THEN d1
             ELSE [d1 EXCEPT !.keys = @ \cup {"times_d"}]

AddPrimaryKeys ==
    /\ pc = "keys"
    /\ SetDb(add_primary_keys(Db))
    /\ pc' = "done"
    /\ UNCHANGED << staging, feedback_df, ds_idx, later_run, snap, csv, sexists, page, faults >>

\* The script is run again on the same staging schema.
RunAgain ==
    /\ pc = "done"
    /\ pc' = "feedback"
    /\ later_run' = TRUE
    /\ snap' = Db
    /\ ds_idx' = 1
    /\ feedback_df' = <<>>
    /\ faults' = 0
    /\ UNCHANGED << staging, tdb, texists, pkeys, csv, sexists, page >>

\* ------------------------------------- Intermediate_table.main, store errors

\* A statement that cannot reach the store raises; every function of
\* Intermediate_table.py catches the exception and logs it.
StoreFails ==
    /\ faults < MaxFaults
    /\ faults' = faults + 1

\* Line 51: CREATE SCHEMA IF NOT EXISTS when the module is loaded; the
\* transform schema exists from then on.
CreateSchema ==
    /\ pc = "schema"
    /\ pc' = "feedback"
    /\ UNCHANGED << staging, tdb, texists, pkeys, feedback_df, ds_idx, later_run, snap, csv, sexists, page, faults >>

\* Lines 43-51: create_schema logs the exception; main is called all the same.
CreateSchemaFails ==
    /\ pc = "schema"
    /\ StoreFails
    /\ pc' = "feedback"
    /\ UNCHANGED << staging, tdb, texists, pkeys, feedback_df, ds_idx, later_run, snap, csv, sexists, page >>

\* Lines 317-320: fetch_data returns None for the feedback and main returns.
FeedbackFetchFails ==
    /\ pc = "feedback"
    /\ StoreFails
    /\ pc' = "done"
    /\ UNCHANGED << staging, tdb, texists, pkeys, feedback_df, ds_idx, later_run, snap, csv, sexists, page >>

\* Lines 322-328 and 238-243: the feedback is transformed; load_data logs
\* the exception of to_sql and returns; main goes on to the loop.
FeedbackLoadFails ==
    /\ pc = "feedback"
    /\ \E t \in { transform_feedback_table(fetch_data(staging, "feedback_dataset")) } :
           /\ t.ok
           /\ feedback_df' = t.df
    /\ StoreFails
    /\ pc' = "loop"
    /\ ds_idx' = 1
    /\ UNCHANGED << staging, tdb, texists, pkeys, later_run, snap, csv, sexists, page >>

\* Lines 332-335: fetch_data returns None in the loop; the dataset is skipped.
DatasetFetchFails ==
    /\ pc = "loop"
    /\ StoreFails
    /\ pc' = Continue(FALSE, ds_idx).pc
    /\ ds_idx' = Continue(FALSE, ds_idx).idx
    /\ UNCHANGED << staging, tdb, texists, pkeys, feedback_df, later_run, snap, csv, sexists, page >>

\* Lines 349-350 and 238-243: the dataset is transformed; load_data logs the
\* exception of to_sql and returns; the loop goes on.
DatasetLoadFails ==
    /\ pc = "loop"
    /\ TransformDataset(DatasetNames[ds_idx]).ok
    /\ StoreFails
    /\ pc' = Continue(TRUE, ds_idx).pc
    /\ ds_idx' = Continue(TRUE, ds_idx).idx
    /\ UNCHANGED << staging, tdb, texists, pkeys, feedback_df, later_run, snap, csv, sexists, page >>

\* Lines 246-293: to_sql raises for date_d, or for times_d after date_d has
\* been replaced; the exception is logged and main goes on.
CalendarLoadFails ==
    /\ pc = "calendar"
    /\ StoreFails
    /\ \/ UNCHANGED << tdb, texists, pkeys >>
       \/ /\ ~("date_d" \in texists /\ ~CanDrop("date_d", texists))
          /\ SetDb(ReplaceCalendarTable(Db, "date_d"))
    /\ pc' = "keys"
    /\ UNCHANGED << staging, feedback_df, ds_idx, later_run, snap, csv, sexists, page >>

\* Lines 295-303: engine.connect() raises; the exception is logged.
AddPrimaryKeysFails ==
    /\ pc = "keys"
    /\ StoreFails
    /\ pc' = "done"
    /\ UNCHANGED << staging, tdb, texists, pkeys, feedback_df, ds_idx, later_run, snap, csv, sexists, page >>

\* ------------------------------------------------------- staging contents

\* Identifiers and texts of the staged data.  The raw loader stores a
\* missing text as the empty string and a missing timestamp as NULL.
o1 == << "o", "1" >>

o2 == << "o", "2" >>

u1 == << "u", "1" >>

u2 == << "u", "2" >>

u9 == << "u", "9" >>

p1 == << "p", "1" >>

p2 == << "p", "2" >>

p9 == << "p", "9" >>

s1 == << "s", "1" >>

s2 == << "s", "2" >>

sDash == << "s", "-", "x" >>

f1 == << "f" >>

f2 == << "0", "_", "f" >>

delivered == << "d", "e", "l", "i", "v", "e", "r", "e", "d" >>

credit_card == << "c", "r", "e", "d", "i", "t", "_", "c", "a", "r", "d" >>

voucher == << "v", "o", "u", "c", "h", "e", "r" >>

bed_bath == << "b", "e", "d", "_", "b", "a", "t", "h" >>

rio == << "r", "i", "o" >>

RJ == << "R", "J" >>

rj == << "r", "j" >>

\* The non-empty tables of at most MaxRows rows drawn from the set rows.
TablesOf(rows) == UNION { [1..n -> rows] : n \in 1..MaxRows }

UserRows ==
    [ user_name : {u1, u2}, customer_zip_code : {11, 12},
      customer_city : {rio}, customer_state : {RJ, rj} ]

SellerRows ==
    [ seller_id : {s1, s2}, seller_zip_code : {11},
      seller_city : {rio}, seller_state : {RJ} ]

ProductRows ==
    [ product_id : {p1, p2}, product_category : {bed_bath}, product_weight_g : {100} ]

PaymentRows ==
    [ order_id : {o1, o2}, payment_sequential : {1, 2}, payment_installments : {1},
      payment_type : {credit_card, voucher}, payment_value : {500} ]

FeedbackRows ==
    [ feedback_id : {f1, f2}, order_id : {o1, o2}, feedback_score : {5},
      feedback_form_sent_date : {Some(MkTs(2017, 11, 28, 0, 0, 0))},
      feedback_answer_date : {Null} ]

OrderItemRows ==
    [ order_id : {o1, o2}, order_item_id : {1, 2}, product_id : {p1, p2},
      seller_id : {s1, sDash}, pickup_limit_date : {Null}, price : {1000},
      shipping_cost : {100} ]

OrderRows ==
    [ order_id : {o1, o2}, user_name : {u1}, order_status : {delivered},
      order_date : {Some(MkTs(2017, 11, 24, 10, 15, 0))},
      order_approved_date : {Some(MkTs(2017, 11, 24, 10, 30, 0))},
      pickup_date : {Some(MkTs(2017, 11, 25, 8, 0, 0))},
      delivered_date : {Null, Some(MkTs(2017, 11, 27, 9, 30, 0))},
      estimated_time_delivery : {Some(MkTs(2017, 11, 25, 0, 0, 0))} ]

\* One small table per dataset, used for the datasets not under study.
Baseline ==
    [ payment_dataset    |-> << [ order_id |-> o1, payment_sequential |-> 1,
                                  payment_installments |-> 1, payment_type |-> credit_card,
                                  payment_value |-> 500 ] >>,
      feedback_dataset   |-> << [ feedback_id |-> f1, order_id |-> o1, feedback_score |-> 5,
                                  feedback_form_sent_date |-> Some(MkTs(2017, 11, 28, 0, 0, 0)),
                                  feedback_answer_date |-> Null ] >>,
      products_dataset   |-> << [ product_id |-> p1, product_category |-> bed_bath,
                                  product_weight_g |-> 100 ] >>,
      seller_dataset     |-> << [ seller_id |-> s1, seller_zip_code |-> 11,
                                  seller_city |-> rio, seller_state |-> RJ ] >>,
      user_dataset       |-> << [ user_name |-> u1, customer_zip_code |-> 11,
                                  customer_city |-> rio, customer_state |-> RJ ] >>,
      order_item_dataset |-> << [ order_id |-> o1, order_item_id |-> 1, product_id |-> p1,
                                  seller_id |-> s1, pickup_limit_date |-> Null,
                                  price |-> 1000, shipping_cost |-> 100 ] >>,
      order_dataset      |-> << [ order_id |-> o1, user_name |-> u1, order_status |-> delivered,
                                  order_date |-> Some(MkTs(2017, 11, 24, 10, 15, 0)),
                                  order_approved_date |-> Some(MkTs(2017, 11, 24, 10, 30, 0)),
                                  pickup_date |-> Some(MkTs(2017, 11, 25, 8, 0, 0)),
                                  delivered_date |-> Some(MkTs(2017, 11, 27, 9, 30, 0)),
                                  estimated_time_delivery |-> Some(MkTs(2017, 11, 25, 0, 0, 0)) ] >> ]

\* The staging schemas enumerated for the transform stage: one dataset (for
\* the orders, together with the feedback they are merged with) ranges over
\* its tables, the others hold their baseline.
StagingInputs ==
    { [Baseline EXCEPT !.user_dataset = t]       : t \in TablesOf(UserRows) } \cup
    { [Baseline EXCEPT !.seller_dataset = t]     : t \in TablesOf(SellerRows) } \cup
    { [Baseline EXCEPT !.products_dataset = t]   : t \in TablesOf(ProductRows) } \cup
    { [Baseline EXCEPT !.payment_dataset = t]    : t \in TablesOf(PaymentRows) } \cup
    { [Baseline EXCEPT !.order_item_dataset = t] : t \in TablesOf(OrderItemRows) } \cup
    { [Baseline EXCEPT !.feedback_dataset = f, !.order_dataset = t] :
          f \in TablesOf(FeedbackRows), t \in TablesOf(OrderRows) }

EmptyDb ==
    [ rows |-> [t \in DataTables |-> <<>>], exists |-> {}, keys |-> {} ]

Init ==
    /\ staging \in StagingInputs
    /\ tdb = EmptyDb.rows
    /\ texists = {}
    /\ pkeys = {}
    /\ feedback_df = <<>>
    /\ pc = "feedback"
    /\ ds_idx = 1
    /\ later_run = FALSE
    /\ snap = EmptyDb
    /\ faults = 0
    /\ csv = NoFiles
    /\ sexists = StagingTables
    /\ page = <<>>

Next ==
    \/ FeedbackFirst
    \/ ProcessDataset
    \/ CreateCalendar
    \/ AddPrimaryKeys
    \/ RunAgain

Spec == Init /\ [][Next]_vars

\* ----------------------------- staging contents and runs with store errors

\* The rows without column col.
WithoutColumn(rows, col) ==
    [k \in 1..Len(rows) |-> [c \in (DOMAIN rows[k]) \ {col} |-> rows[k][c]]]

\* A column that the transformer of each dataset reads.
DroppedColumn ==
    [ payment_dataset    |-> "payment_value",
      feedback_dataset   |-> "feedback_score",
      products_dataset   |-> "product_category",
      seller_dataset     |-> "seller_city",
      user_dataset       |-> "customer_state",
      order_item_dataset |-> "price",
      order_dataset      |-> "order_status" ]

\* A cell of a text column whose text does not parse as a timestamp.
Unparseable == Some(MkTs(2017, 13, 45, 0, 0, 0))

\* The timestamp columns of the orders that the fact assembler reads.
OrderTimestampColumns ==
    { "order_date", "delivered_date", "estimated_time_delivery", "order_approved_date",
      "pickup_date" }

\* The baseline; the baseline with one staging table that lacks a column its
\* transformer reads; the baseline with a seller id that contains '-'; the
\* baseline with an order that has text that is no timestamp in one of its
\* timestamp columns.
FaultStagingInputs ==
    { Baseline } \cup
    { [Baseline EXCEPT ![name] = WithoutColumn(@, DroppedColumn[name])] :
          name \in DOMAIN DroppedColumn } \cup
    { [Baseline EXCEPT !.order_item_dataset = << [@[1] EXCEPT !.seller_id = sDash] >>] } \cup
    { [Baseline EXCEPT !.order_dataset = << [@[1] EXCEPT ![col] = Unparseable] >>] :
          col \in OrderTimestampColumns }

\* A first run of the script, from the loading of the module, on a store
\* that may be unreachable for up to MaxFaults of its statements.
InitFault ==
    /\ staging \in FaultStagingInputs
    /\ tdb = EmptyDb.rows
    /\ texists = {}
    /\ pkeys = {}
    /\ feedback_df = <<>>
    /\ pc = "schema"
    /\ ds_idx = 1
    /\ later_run = FALSE
    /\ snap = EmptyDb
    /\ faults = 0
    /\ csv = NoFiles
    /\ sexists = StagingTables
    /\ page = <<>>

NextFault ==
    \/ CreateSchema
    \/ CreateSchemaFails
    \/ FeedbackFirst
    \/ FeedbackFetchFails
    \/ FeedbackLoadFails
    \/ ProcessDataset
    \/ DatasetFetchFails
    \/ DatasetLoadFails
    \/ CreateCalendar
    \/ CalendarLoadFails
    \/ AddPrimaryKeys
    \/ AddPrimaryKeysFails

SpecFault == InitFault /\ [][NextFault]_vars

\* ------------------------------------------------------------- Dim&fact.py

\* The outcome of a function of Dim&fact.py: the schema it leaves, and
\* whether it returned (ok) or raised.
Done(db) == [db |-> db, ok |-> TRUE]

Raised(db) == [db |-> db, ok |-> FALSE]

\* DROP TABLE IF EXISTS t
DropTable(db, t) ==
    [ rows   |-> IF t \in DataTables THEN [db.rows EXCEPT ![t] = <<>>] ELSE db.rows,
      exists |-> db.exists \ {t},
      keys   |-> db.keys \ {t} ]

\* The body shared by the five create_dim functions: DROP TABLE IF EXISTS,
\* CREATE TABLE dim AS SELECT ... FROM src, ADD PRIMARY KEY (key).  Every
\* statement is committed as it ends; the first that fails raises.
CreateDimTable(db, dim, src, Project(_), key) ==
    IF dim \in db.exists /\ ~CanDrop(dim, db.exists) THEN Raised(db)
    ELSE LET d1 == DropTable(db, dim)
         IN  IF src \notin d1.exists THEN Raised(d1)
             ELSE LET d2 == [ rows   |-> [d1.rows EXCEPT ![dim] = Map(RowsOf(d1, src), Project)],
                              exists |-> d1.exists \cup {dim},
                              keys   |-> d1.keys ]
                  IN  IF ~CanAddKey(d2, dim, key) THEN Raised(d2)
                      ELSE Done([d2 EXCEPT !.keys = @ \cup {dim}])

\* Lines 34-59.  The fact table is dropped first, outside the try block.
create_dim_users(db) ==
    CreateDimTable(DropTable(db, "fact_order_items"), "dim_users", "users_d",
        LAMBDA r : [ UserID |-> r.user_id, UserZIPCode |-> r.user_zip_code,
                     UserCity |-> r.user_city, UserState |-> r.user_state ],
        "UserID")

\* Lines 62-86
create_dim_feedbacks(db) ==
    CreateDimTable(db, "dim_feedbacks", "feedback_d",
        LAMBDA r : [ FeedbackID |-> r.feedback_id, FeedbackScore |-> r.feedback_score,
                     FeedbackFormSentDate |-> r.feedback_form_sent_date,
                     FeedbackAnswerDate |-> r.feedback_answer_date ],
        "FeedbackID")

\* Lines 91-116
create_dim_payments(db) ==
    CreateDimTable(db, "dim_payments", "payment_d",
        LAMBDA r : [ PaymentID |-> r.payment_id, PaymentValue |-> r.payment_value,
                     PaymentInstallments |-> r.payment_installments,
                     PaymentSequential |-> r.payment_sequential,
                     PaymentType |-> r.payment_type ],
        "PaymentID")

\* Lines 119-146
create_dim_products(db) ==
    CreateDimTable(db, "dim_products", "products_d",
        LAMBDA r : [ ProductID |-> r.product_id, ProductCategory |-> r.product_category,
                     ProductWeightInGrams |-> r.product_weight_g ],
        "ProductID")

\* Lines 149-173
create_dim_sellers(db) ==
    CreateDimTable(db, "dim_sellers", "sellers_d",
        LAMBDA r : [ SellerID |-> r.seller_id, SellerCity |-> r.seller_city,
                     SellerState |-> r.seller_state, SellerZIPCode |-> r.seller_zip_code ],
        "SellerID")

\* The foreign keys of fact_order_items: column, referenced table, its key.
ForeignKeys ==
    { << "UserID", "dim_users", "UserID" >>,
      << "ProductID", "dim_products", "ProductID" >>,
      << "SellerID", "dim_sellers", "SellerID" >>,
      << "PaymentID", "dim_payments", "PaymentID" >>,
      << "FeedbackID", "dim_feedbacks", "FeedbackID" >>,
      << "OrderDateKey", "date_d", "DateKey" >>,
      << "OrderTimeKey", "times_d", "TimeKey" >>,
      << "DeliveredDateKey", "date_d", "DateKey" >>,
      << "DeliveredTimeKey", "times_d", "TimeKey" >>,
      << "EstimatedDeliveryDateKey", "date_d", "DateKey" >>,
      << "EstimatedDeliveryTimeKey", "times_d", "TimeKey" >>,
      << "OrderApprovedDateKey", "date_d", "DateKey" >>,
      << "OrderApprovedTimeKey", "times_d", "TimeKey" >>,
      << "PickupDateKey", "date_d", "DateKey" >>,
      << "PickupTimeKey", "times_d", "TimeKey" >> }

\* A CREATE TABLE that declares the foreign keys whatever the referenced
\* tables are.
CreateFactUnchecked(db) ==
    Done([ rows   |-> [db.rows EXCEPT !["fact_order_items"] = <<>>],
           exists |-> db.exists \cup {"fact_order_items"},
           keys   |-> db.keys \ {"fact_order_items"} ])

\* Lines 175-231: the table is dropped and created empty; a foreign key can
\* be declared only on an existing table whose referenced column is its key.
create_fact_order_items(db) ==
    LET d1 == DropTable(db, "fact_order_items")
    IN  IF \E fk \in ForeignKeys : fk[2] \notin d1.exists \/ fk[2] \notin d1.keys
        THEN Raised(d1)
        ELSE Done([ rows   |-> [d1.rows EXCEPT !["fact_order_items"] = <<>>],
                    exists |-> d1.exists \cup {"fact_order_items"},
                    keys   |-> d1.keys ])

\* LEFT JOIN t ON On(row): the rows of t that satisfy the condition, each as
\* Some(row), or a single Null when there is none.
LeftJoin(rows, On(_)) ==
    LET m == SelectSeq(rows, On)
    IN  IF m = <<>> THEN << Null >> ELSE Map(m, Some)

\* A column of a left-joined row: NULL when the join found no row.
Col(joined, name) == IF IsNull(joined) THEN Null ELSE Some(Val(joined)[name])

\* A check that also counts a delivery on the estimated day as late.
DeliveryDelayCheckInclusive(d2, d3) ==
    IF \/ SqlTrue(SqlGt(Col(d2, "DateKey"), Col(d3, "DateKey")))
       \/ SqlTrue(SqlEq(Col(d2, "DateKey"), Col(d3, "DateKey")))
    THEN "TRUE" ELSE "FALSE"

\* The difference of the days as it is, negative for an early delivery.
DeliveryDelayDaysUnclamped(d2, d3) == DateDiff(Col(d2, "Date"), Col(d3, "Date"))

\* Lines 263-266
DeliveryDelayCheck(d2, d3) ==
    IF SqlTrue(SqlGt(Col(d2, "DateKey"), Col(d3, "DateKey"))) THEN "TRUE" ELSE "FALSE"

\* Lines 267-270
DeliveryDelayDays(d2, d3) ==
    IF SqlTrue(SqlLt(DateDiff(Col(d2, "Date"), Col(d3, "Date")), Some(0))) THEN Some(0)
    ELSE DateDiff(Col(d2, "Date"), Col(d3, "Date"))

\* A shipping duration clamped at 0 like the delay in days.
ShippingDaysClamped(o) ==
    LET diff == DateDiff(o.delivered_date, o.pickup_date)
    IN  IF ~IsNull(diff) /\ Val(diff) < 0 THEN Some(0) ELSE diff

\* Line 279
ShippingDays(o) == DateDiff(o.delivered_date, o.pickup_date)

\* Lines 250-279: the SELECT list, on one row of the join.
FactRow(o, oi, u, p, f, d1, t1, d2, t2, d3, t3, d4, t4, d5, t5) ==
    [ OrderID                  |-> Some(o.order_id),
      UserID                   |-> Some(o.user_id),
      ProductID                |-> Col(oi, "product_id"),
      SellerID                 |-> Col(oi, "seller_id"),
      PaymentID                |-> Col(p, "PaymentID"),
      FeedbackID               |-> Col(f, "FeedbackID"),
      OrderDateKey             |-> Col(d1, "DateKey"),
      OrderTimeKey             |-> Col(t1, "TimeKey"),
      PaymentValue             |-> Col(p, "PaymentValue"),
      UserState                |-> Col(u, "UserState"),
      DeliveredDateKey         |-> Col(d2, "DateKey"),
      DeliveredTimeKey         |-> Col(t2, "TimeKey"),
      DeliveryDelayCheck       |-> DeliveryDelayCheck(d2, d3),
      DeliveryDelayDays        |-> DeliveryDelayDays(d2, d3),
      EstimatedDeliveryDateKey |-> Col(d3, "DateKey"),
      EstimatedDeliveryTimeKey |-> Col(t3, "TimeKey"),
      OrderApprovedDateKey     |-> Col(d4, "DateKey"),
      OrderApprovedTimeKey     |-> Col(t4, "TimeKey"),
      OrderStatus              |-> Some(o.order_status),
      PickupDateKey            |-> Col(d5, "DateKey"),
      PickupTimeKey            |-> Col(t5, "TimeKey"),
      Quantity                 |-> Col(oi, "quantity"),
      ShippingDays             |-> ShippingDays(o) ]

\* The rows of date_df by the day of their Date, found through the rows of
\* each month.
DateRowsByMonth ==
    [ ym \in { << date_df[k].Year, date_df[k].Month >> : k \in 1..Len(date_df) } |->
        SelectSeq(date_df, LAMBDA r : r.Year = ym[1] /\ r.Month = ym[2]) ]

DateRowsByDay ==
    [ day \in { date_df[k].Date : k \in 1..Len(date_df) } |->
        SelectSeq(DateRowsByMonth[<< day.y, day.m >>], LAMBDA r : r.Date = day) ]

\* The rows of times_df by their Hour and Minute, found through the rows of
\* each hour.
TimeRowsByHour ==
    [ hour \in { times_df[k].Hour : k \in 1..Len(times_df) } |->
        SelectSeq(times_df, LAMBDA r : r.Hour = hour) ]

TimeRowsByMinute ==
    [ hm \in { << times_df[k].Hour, times_df[k].Minute >> : k \in 1..Len(times_df) } |->
        SelectSeq(TimeRowsByHour[hm[1]], LAMBDA r : r.Minute = hm[2]) ]

\* LEFT JOIN date_d d ON DATE(ts) = DATE(d.Date)
LeftJoinDate(db, ts) ==
    IF "date_d" \in db.exists /\ ~IsNull(ts) /\ Val(SqlDate(ts)) \in DOMAIN DateRowsByDay
    THEN Map(DateRowsByDay[Val(SqlDate(ts))], Some)
    ELSE << Null >>

\* A join that also asks for SECOND(ts) = t.Second.
LeftJoinTimeToTheSecond(db, ts) ==
    IF /\ "times_d" \in db.exists /\ ~IsNull(ts)
       /\ << Val(SqlHour(ts)), Val(SqlMinute(ts)) >> \in DOMAIN TimeRowsByMinute
    THEN LET hit == SelectSeq(TimeRowsByMinute[<< Val(SqlHour(ts)), Val(SqlMinute(ts)) >>],
                              LAMBDA r : r.Second = Val(ts).ss)
         IN  IF hit = <<>> THEN << Null >> ELSE Map(hit, Some)
    ELSE << Null >>

\* LEFT JOIN times_d t ON HOUR(ts) = t.Hour AND MINUTE(ts) = t.Minute
LeftJoinTime(db, ts) ==
    IF /\ "times_d" \in db.exists /\ ~IsNull(ts)
       /\ << Val(SqlHour(ts)), Val(SqlMinute(ts)) >> \in DOMAIN TimeRowsByMinute
    THEN Map(TimeRowsByMinute[<< Val(SqlHour(ts)), Val(SqlMinute(ts)) >>], Some)
    ELSE << Null >>

\* Lines 280-296: the rows the SELECT yields, the joins nested in the order
\* of the FROM clause.
SelectFactRows(db) ==
    LET T(name) == RowsOf(db, name)
    IN
    FlatMap(T("orders_d"), LAMBDA o :
     FlatMap(LeftJoin(T("order_item_d"), LAMBDA r : r.order_id = o.order_id), LAMBDA oi :
      FlatMap(LeftJoin(T("dim_users"), LAMBDA r : r.UserID = o.user_id), LAMBDA u :
       FlatMap(LeftJoin(T("dim_sellers"), LAMBDA r : SqlTrue(SqlEq(Col(oi, "seller_id"), Some(r.SellerID)))), LAMBDA s :
        FlatMap(LeftJoin(T("dim_products"), LAMBDA r : SqlTrue(SqlEq(Col(oi, "product_id"), Some(r.ProductID)))), LAMBDA pd :
         FlatMap(LeftJoin(T("dim_payments"), LAMBDA r : r.PaymentID = o.order_id), LAMBDA p :
          FlatMap(LeftJoin(T("dim_feedbacks"), LAMBDA r : SqlTrue(SqlEq(o.feedback_id, Some(r.FeedbackID)))), LAMBDA f :
           FlatMap(LeftJoinDate(db, o.order_date), LAMBDA d1 :
            FlatMap(LeftJoinTime(db, o.order_date), LAMBDA t1 :
             FlatMap(LeftJoinDate(db, o.delivered_date), LAMBDA d2 :
              FlatMap(LeftJoinTime(db, o.delivered_date), LAMBDA t2 :
               FlatMap(LeftJoinDate(db, o.estimated_time_delivery), LAMBDA d3 :
                FlatMap(LeftJoinTime(db, o.estimated_time_delivery), LAMBDA t3 :
                 FlatMap(LeftJoinDate(db, o.order_approved_date), LAMBDA d4 :
                  FlatMap(LeftJoinTime(db, o.order_approved_date), LAMBDA t4 :
                   FlatMap(LeftJoinDate(db, o.pickup_date), LAMBDA d5 :
                    FlatMap(LeftJoinTime(db, o.pickup_date), LAMBDA t5 :
                     << FactRow(o, oi, u, p, f, d1, t1, d2, t2, d3, t3, d4, t4, d5, t5) >>
                    )))))))))))))))))

\* The keys of the calendar frames.
DateKeys == { date_df[k].DateKey : k \in 1..Len(date_df) }

TimeKeys == { times_df[k].TimeKey : k \in 1..Len(times_df) }

\* The values of column col in table t.
KeyValues(db, t, col) ==
    IF t \notin db.exists THEN {}
    ELSE IF t = "date_d" /\ col = "DateKey" THEN DateKeys
    ELSE IF t = "times_d" /\ col = "TimeKey" THEN TimeKeys
    ELSE { db.rows[t][k][col] : k \in 1..Len(db.rows[t]) }

\* Whether row r satisfies the foreign keys: a non-null value must be a key
\* of the referenced table.
SatisfiesForeignKeys(db, r) ==
    \A fk \in ForeignKeys :
        IsNull(r[fk[1]]) \/ Val(r[fk[1]]) \in KeyValues(db, fk[2], fk[3])

\* Lines 234-301: one INSERT ... SELECT in one transaction; a row that breaks
\* a foreign key fails the statement, which inserts nothing and raises.
insert_into_fact_order_items(db) ==
    IF { "fact_order_items", "orders_d", "order_item_d", "date_d", "times_d" } \cup DimTables
           \subseteq db.exists
    THEN LET rows == SelectFactRows(db)
         IN  IF \A k \in 1..Len(rows) : SatisfiesForeignKeys(db, rows[k])
             THEN Done([db EXCEPT !.rows["fact_order_items"] = @ \o rows])
             ELSE Raised(db)
    ELSE Raised(db)

\* Dim&fact.main, lines 306-326: the seven functions run in turn; one that
\* raises ends the script.
Step(result, next) ==
    \E r \in { result } :
        /\ SetDb(r.db)
        /\ pc' = IF r.ok THEN next ELSE "df_failed"
        /\ UNCHANGED << staging, feedback_df, ds_idx, later_run, snap, csv, sexists, page, faults >>

CreateDimUsers == pc = "dim_users" /\ Step(create_dim_users(Db), "dim_feedbacks")

CreateDimFeedbacks == pc = "dim_feedbacks" /\ Step(create_dim_feedbacks(Db), "dim_payments")

CreateDimPayments == pc = "dim_payments" /\ Step(create_dim_payments(Db), "dim_products")

CreateDimProducts == pc = "dim_products" /\ Step(create_dim_products(Db), "dim_sellers")

CreateDimSellers == pc = "dim_sellers" /\ Step(create_dim_sellers(Db), "create_fact")

CreateFactOrderItems == pc = "create_fact" /\ Step(create_fact_order_items(Db), "insert_fact")

InsertIntoFactOrderItems ==
    pc = "insert_fact" /\ Step(insert_into_fact_order_items(Db), "df_done")

\* Intermediate_table.main, lines 304-368, from its first statement to its
\* last on the transform schema db.
Intermediate_main(stg, db) ==
    LET fb == transform_feedback_table(fetch_data(stg, "feedback_dataset"))
        loaded[k \in 0..Len(DatasetNames)] ==
            IF k = 0 THEN load_data(db, fb.df, "feedback_d")
            ELSE LET name == DatasetNames[k]
                     df   == fetch_data(stg, name)
                     t    == IF name = "order_dataset"
                             THEN transform_orders_table(df, fb.df)
                             ELSE Transform(name, df)
                 IN  IF t.ok THEN load_data(loaded[k - 1], t.df, TargetTable(name))
                     ELSE loaded[k - 1]
    IN  IF ~fb.ok THEN db
        ELSE add_primary_keys(create_date_and_time_tables(loaded[Len(DatasetNames)]))

\* ------------------------------------------- staging contents, fact stage

\* Delivered and estimated-delivery timestamps of an order: late by two
\* days, early, same day, late across a year end, delivered the day after
\* the calendar ends, estimated the day before it begins, and either missing.
DeliveryProfiles ==
    { << Some(MkTs(2017, 11, 27, 9, 30, 0)),   Some(MkTs(2017, 11, 25, 0, 0, 0)) >>,
      << Some(MkTs(2017, 11, 24, 18, 0, 0)),   Some(MkTs(2017, 11, 25, 0, 0, 0)) >>,
      << Some(MkTs(2017, 11, 25, 23, 59, 59)), Some(MkTs(2017, 11, 25, 0, 0, 0)) >>,
      << Some(MkTs(2018, 1, 2, 7, 5, 0)),      Some(MkTs(2017, 12, 30, 0, 0, 0)) >>,
      << Some(MkTs(2018, 10, 18, 12, 0, 0)),   Some(MkTs(2018, 10, 17, 0, 0, 0)) >>,
      << Some(MkTs(2016, 4, 9, 12, 0, 0)),     Some(MkTs(2016, 4, 8, 0, 0, 0)) >>,
      << Null,                                 Some(MkTs(2017, 11, 25, 0, 0, 0)) >>,
      << Some(MkTs(2017, 11, 27, 9, 30, 0)),   Null >> }

\* The profiles of a second order of the table.
SecondProfiles ==
    { << Some(MkTs(2017, 11, 27, 9, 30, 0)),   Some(MkTs(2017, 11, 25, 0, 0, 0)) >>,
      << Some(MkTs(2017, 11, 24, 18, 0, 0)),   Some(MkTs(2017, 11, 25, 0, 0, 0)) >> }

OrderOf(id, user, placed, profile) ==
    [ order_id |-> id, user_name |-> user, order_status |-> delivered,
      order_date |-> Some(placed),
      order_approved_date |-> Some(MkTs(2017, 11, 24, 10, 30, 0)),
      pickup_date |-> Some(MkTs(2017, 11, 25, 8, 0, 0)),
      delivered_date |-> profile[1],
      estimated_time_delivery |-> profile[2] ]

\* One order o1, of a known user or of one absent from the users, alone or
\* followed by an order o2 placed in the first minute of the calendar, picked
\* up like o1 or not picked up yet.
FactOrderTables ==
    LET first == { OrderOf(o1, u, MkTs(2017, 11, 24, 10, 15, 0), pr) :
                       u \in {u1, u9}, pr \in DeliveryProfiles }
        second == { OrderOf(o2, u1, MkTs(2016, 4, 9, 0, 0, 42), pr) : pr \in SecondProfiles }
    IN  { << a >> : a \in first } \cup
        { << a, b >> : a \in first, b \in second } \cup
        { << a, [b EXCEPT !.pickup_date = Null] >> : a \in first, b \in second }

LineOf(order, item, product, seller) ==
    [ order_id |-> order, order_item_id |-> item, product_id |-> product,
      seller_id |-> seller, pickup_limit_date |-> Null, price |-> 1000,
      shipping_cost |-> 100 ]

\* The lines of o1: one; two of different products; two of one product; one
\* of a product absent from the products; none.
FactOrderItemTables ==
    { << LineOf(o1, 1, p1, s1) >>,
      << LineOf(o1, 1, p1, s1), LineOf(o1, 2, p2, s1) >>,
      << LineOf(o1, 1, p1, s1), LineOf(o1, 2, p1, s1) >>,
      << LineOf(o1, 1, p9, s1) >>,
      << LineOf(o2, 1, p1, s1) >> }

FeedbackOf(id, order) ==
    [ feedback_id |-> id, order_id |-> order, feedback_score |-> 5,
      feedback_form_sent_date |-> Some(MkTs(2017, 11, 28, 0, 0, 0)),
      feedback_answer_date |-> Null ]

\* The feedback of o1: one row; two rows; none.
FactFeedbackTables ==
    { << FeedbackOf(f1, o1) >>,
      << FeedbackOf(f1, o1), FeedbackOf(f1, o1) >>,
      << FeedbackOf(f1, o2) >> }

PaymentOf(order, seq, value) ==
    [ order_id |-> order, payment_sequential |-> seq, payment_installments |-> 1,
      payment_type |-> credit_card, payment_value |-> value ]

\* The payments of o1: one; two; none.
FactPaymentTables ==
    { << PaymentOf(o1, 1, 500) >>,
      << PaymentOf(o1, 1, 500), PaymentOf(o1, 2, 250) >>,
      << PaymentOf(o2, 1, 500) >> }

\* The staging schemas enumerated for the fact stage.
FactStagingInputs ==
    { [ Baseline EXCEPT
          !.products_dataset = << [ product_id |-> p1, product_category |-> bed_bath,
                                    product_weight_g |-> 100 ],
                                  [ product_id |-> p2, product_category |-> bed_bath,
                                    product_weight_g |-> 100 ] >>,
          !.order_dataset = o, !.order_item_dataset = l,
          !.feedback_dataset = f, !.payment_dataset = p ] :
      o \in FactOrderTables, l \in FactOrderItemTables,
      f \in FactFeedbackTables, p \in FactPaymentTables }

\* Dim&fact.py is started on the transform schema that a complete run of
\* Intermediate_table.py has left.
InitFact ==
    /\ staging \in FactStagingInputs
    /\ \E db \in { Intermediate_main(staging, EmptyDb) } :
           /\ tdb = db.rows
           /\ texists = db.exists
           /\ pkeys = db.keys
    /\ feedback_df = <<>>
    /\ pc = "dim_users"
    /\ ds_idx = 1
    /\ later_run = FALSE
    /\ snap = EmptyDb
    /\ faults = 0
    /\ csv = NoFiles
    /\ sexists = StagingTables
    /\ page = <<>>

NextFact ==
    \/ CreateDimUsers
    \/ CreateDimFeedbacks
    \/ CreateDimPayments
    \/ CreateDimProducts
    \/ CreateDimSellers
    \/ CreateFactOrderItems
    \/ InsertIntoFactOrderItems

SpecFact == InitFact /\ [][NextFact]_vars

\* ----------------------------------------------- properties, transform stage

\* The key column declared for each dimension table of the transform schema.
DeclaredKey ==
    [ users_d    |-> "user_id",
      sellers_d  |-> "seller_id",
      products_d |-> "product_id",
      payment_d  |-> "payment_id",
      feedback_d |-> "feedback_id" ]

\* The number of positions of s that satisfy Test.
Count(s, Test(_)) == Cardinality({k \in 1..Len(s) : Test(s[k])})

\* C1: in every dimension table that a transformer's output has been loaded
\* into, no value of the declared key column is empty and none occurs twice.
C1_DimensionKeysUnique ==
    \A t \in DOMAIN DeclaredKey :
        t \in texists =>
            \A a, b \in 1..Len(tdb[t]) :
                /\ tdb[t][a][DeclaredKey[t]] # <<>>
                /\ a # b => tdb[t][a][DeclaredKey[t]] # tdb[t][b][DeclaredKey[t]]

\* C2: once the line items are loaded, the quantities of order_item_d sum
\* to the number of rows of the raw line items.
C2_QuantitySumsToLineCount ==
    "order_item_d" \in texists =>
        SumSeq(tdb["order_item_d"], LAMBDA r : r.quantity) = Len(staging["order_item_dataset"])

\* A group of two raw lines has been collapsed into one row of quantity 2.
C2_Witness ==
    /\ "order_item_d" \in texists
    /\ Len(tdb["order_item_d"]) < Len(staging["order_item_dataset"])
    /\ \E a \in 1..Len(tdb["order_item_d"]) : tdb["order_item_d"][a].quantity = 2

\* C3: once the payments are loaded, payment_d has exactly one row for each
\* order id of the raw payments and no other row, and the payment_value of
\* the row is the sum of the raw payment_value of the rows of that order.
C3_PaymentsMergedPerOrder ==
    "payment_d" \in texists =>
        LET raw == staging["payment_dataset"]
            out == tdb["payment_d"]
        IN  /\ \A k \in 1..Len(raw) :
                   Count(out, LAMBDA r : r.payment_id = raw[k].order_id) = 1
            /\ \A a \in 1..Len(out) :
                   /\ \E k \in 1..Len(raw) : raw[k].order_id = out[a].payment_id
                   /\ out[a].payment_value =
                          SumSeq(SelectSeq(raw, LAMBDA r : r.order_id = out[a].payment_id),
                                 LAMBDA r : r.payment_value)

\* Two raw payments of one order have been merged into one row.
C3_Witness ==
    /\ "payment_d" \in texists
    /\ Len(staging["payment_dataset"]) = 2
    /\ Len(tdb["payment_d"]) = 1
    /\ tdb["payment_d"][1].payment_value =
           staging["payment_dataset"][1].payment_value + staging["payment_dataset"][2].payment_value

\* The calendar day after day x.
NextDay(x) ==
    IF x.d < DaysInMonth(x.y, x.m) THEN MkDate(x.y, x.m, x.d + 1)
    ELSE IF x.m < 12 THEN MkDate(x.y, x.m + 1, 1)
    ELSE MkDate(x.y + 1, 1, 1)

\* The frame of dates has 922 rows, from 2016-04-09 to 2018-10-17, each the
\* day after the one before it, none of them 2016-02-29; the frame of times
\* has 1440 rows, one for each hour 0..23 and minute 0..59.
CalendarFramesExact ==
    /\ Len(date_df) = 922
    /\ date_df[1].Date = MkDate(2016, 4, 9)
    /\ date_df[Len(date_df)].Date = MkDate(2018, 10, 17)
    /\ \A k \in 1..(Len(date_df) - 1) : date_df[k + 1].Date = NextDay(date_df[k].Date)
    /\ \A k \in 1..Len(date_df) : date_df[k].Date # MkDate(2016, 2, 29)
    /\ Len(times_df) = 1440
    /\ { << times_df[k].Hour, times_df[k].Minute >> : k \in 1..Len(times_df) }
           = (0..23) \X (0..59)

\* C5: the date table that create_date_and_time_tables writes has one row
\* for each day from 2016-04-09 to 2018-10-17 (922 rows, no gap, no repeat,
\* without 2016-02-29) and the time table one row for each (hour, minute),
\* 1440 rows.
C5_CalendarTablesExact ==
    /\ "date_d" \in texists => RowsOf(Db, "date_d") = date_df /\ CalendarFramesExact
    /\ "times_d" \in texists => RowsOf(Db, "times_d") = times_df /\ CalendarFramesExact

\* Both calendar tables have been written.
C5_Witness ==
    /\ pc = "keys"
    /\ Len(RowsOf(Db, "date_d")) = 922
    /\ Len(RowsOf(Db, "times_d")) = 1440

\* C8: when a later run of the transform stage on the same staging data
\* ends, every dimension table holds the rows the run before it left: none
\* added, no key changed.
C8_SecondRunSameTables ==
    (pc = "done" /\ later_run) =>
        \A t \in DOMAIN DeclaredKey :
            /\ (t \in texists) = (t \in snap.exists)
            /\ tdb[t] = snap.rows[t]

\* A second run has ended on feedback whose natural key repeats.
C8_Witness ==
    /\ pc = "done"
    /\ later_run
    /\ Len(tdb["feedback_d"]) = 2
    /\ staging["feedback_dataset"][1].feedback_id = staging["feedback_dataset"][2].feedback_id
    /\ Len(tdb["users_d"]) = 1

\* ---------------------------------------------------- properties, fact stage

\* The rows of the fact table.
FactRows == RowsOf(Db, "fact_order_items")

\* The raw order of a fact row (the order ids of the raw orders are distinct).
RawOrder(r) ==
    CHOOSE o \in Range(staging["order_dataset"]) : o.order_id = Val(r.OrderID)

\* The number of day x counted from the years, months and days before it.
DayOrdinal(x) ==
    365 * x.y + (x.y - 1) \div 4 - (x.y - 1) \div 100 + (x.y - 1) \div 400
        + SumSeq([k \in 1..(x.m - 1) |-> k], LAMBDA k : DaysInMonth(x.y, k)) + x.d

\* Whether a timestamp is present and its day is one of the calendar's.
InCalendar(ts) ==
    /\ ~IsNull(ts)
    /\ DayOrdinal(MkDate(2016, 4, 9)) <= DayOrdinal(Val(ts))
    /\ DayOrdinal(Val(ts)) <= DayOrdinal(MkDate(2018, 10, 17))

\* The seconds of a timestamp since the midnight before it.
SecondOfDay(x) == x.hh * 3600 + x.mi * 60 + x.ss

\* Whether timestamp x is at or before timestamp z.
NotAfter(x, z) ==
    \/ DayOrdinal(x) < DayOrdinal(z)
    \/ DayOrdinal(x) = DayOrdinal(z) /\ SecondOfDay(x) <= SecondOfDay(z)

\* Whether the order was delivered at or before its estimated delivery.
DeliveredByEstimate(o) ==
    /\ ~IsNull(o.delivered_date)
    /\ ~IsNull(o.estimated_time_delivery)
    /\ NotAfter(Val(o.delivered_date), Val(o.estimated_time_delivery))

\* The days from the estimated day to the delivered day of an order that
\* has both.
DaysLate(o) == DayOrdinal(Val(o.delivered_date)) - DayOrdinal(Val(o.estimated_time_delivery))

\* C4 as stated: every fact row has a DeliveryDelayDays that is at least 0,
\* and that is 0 when the order was delivered at or before its estimate,
\* whether or not its dates are missing or outside the calendar.
C4_DelayDaysNeverNegative ==
    \A a \in 1..Len(FactRows) :
        /\ ~IsNull(FactRows[a].DeliveryDelayDays)
        /\ Val(FactRows[a].DeliveryDelayDays) >= 0
        /\ DeliveredByEstimate(RawOrder(FactRows[a])) => FactRows[a].DeliveryDelayDays = Some(0)

\* C4: a fact row whose order has its delivered and estimated days in the
\* calendar has a DeliveryDelayDays that is at least 0, and that is 0 when
\* the order was delivered at or before its estimate; the row of an order
\* with either date missing or outside the calendar has no DeliveryDelayDays.
C4_DelayDaysClampedOrNull ==
    \A a \in 1..Len(FactRows) :
        LET r == FactRows[a]
            o == RawOrder(r)
        IN  IF InCalendar(o.delivered_date) /\ InCalendar(o.estimated_time_delivery)
            THEN /\ ~IsNull(r.DeliveryDelayDays)
                 /\ Val(r.DeliveryDelayDays) >= 0
                 /\ DeliveredByEstimate(o) => r.DeliveryDelayDays = Some(0)
            ELSE IsNull(r.DeliveryDelayDays)

\* The fact table holds the row of an order delivered a day early, with a
\* delay of 0, and the row of an order without delivery date, with none.
C4_Witness ==
    /\ \E a \in 1..Len(FactRows) :
           /\ DeliveredByEstimate(RawOrder(FactRows[a]))
           /\ DaysLate(RawOrder(FactRows[a])) = -1
           /\ FactRows[a].DeliveryDelayDays = Some(0)
    /\ \E a \in 1..Len(FactRows) :
           /\ IsNull(RawOrder(FactRows[a]).delivered_date)
           /\ IsNull(FactRows[a].DeliveryDelayDays)

\* C6: when Dim&fact.py has ended, every order of orders_d has a row in the
\* fact table, and the row of an order whose user is absent from dim_users
\* has a null UserID.
C6_AbsentReferenceKeptAsNull ==
    pc \in {"df_done", "df_failed"} =>
        \A k \in 1..Len(tdb["orders_d"]) :
            \E a \in 1..Len(FactRows) :
                /\ FactRows[a].OrderID = Some(tdb["orders_d"][k].order_id)
                /\ tdb["orders_d"][k].user_id \notin KeyValues(Db, "dim_users", "UserID")
                       => IsNull(FactRows[a].UserID)

\* Whether fact row r is one that C7 speaks of: its order, delivered and
\* estimated timestamps are in the calendar and it has a line item.
HasCalendarDatesAndLine(r) ==
    /\ InCalendar(RawOrder(r).order_date)
    /\ InCalendar(RawOrder(r).delivered_date)
    /\ InCalendar(RawOrder(r).estimated_time_delivery)
    /\ ~IsNull(r.ProductID)

\* The three fields that C7 states alike in both readings.
KeysAndCheckFromTimestamps(r) ==
    LET o      == RawOrder(r)
        placed == Val(o.order_date)
    IN  /\ r.OrderDateKey = Some(placed.y * 10000 + placed.m * 100 + placed.d)
        /\ r.OrderTimeKey = Some(placed.hh * 10000 + placed.mi * 100)
        /\ (r.DeliveryDelayCheck = "TRUE") = (DaysLate(o) > 0)
        /\ r.DeliveryDelayCheck \in {"TRUE", "FALSE"}

\* C7 as stated: for such a row the keys of the order timestamp and the
\* check are as above and DeliveryDelayDays is the number of days between
\* the delivered and the estimated day.
C7_DelayDaysIsDaysBetween ==
    \A a \in 1..Len(FactRows) :
        HasCalendarDatesAndLine(FactRows[a]) =>
            /\ KeysAndCheckFromTimestamps(FactRows[a])
            /\ FactRows[a].DeliveryDelayDays =
                   Some(IF DaysLate(RawOrder(FactRows[a])) >= 0
                        THEN DaysLate(RawOrder(FactRows[a]))
                        ELSE 0 - DaysLate(RawOrder(FactRows[a])))

\* C7: for such a row OrderDateKey is year*10000 + month*100 + day and
\* OrderTimeKey is hour*10000 + minute*100 of the order timestamp,
\* DeliveryDelayCheck is 'TRUE' exactly when the delivered day is after the
\* estimated day, and DeliveryDelayDays is the number of days the delivered
\* day is after the estimated day, 0 when it is not after it.
C7_KeysAndDelayFromTimestamps ==
    \A a \in 1..Len(FactRows) :
        HasCalendarDatesAndLine(FactRows[a]) =>
            /\ KeysAndCheckFromTimestamps(FactRows[a])
            /\ FactRows[a].DeliveryDelayDays =
                   Some(IF DaysLate(RawOrder(FactRows[a])) > 0
                        THEN DaysLate(RawOrder(FactRows[a]))
                        ELSE 0)

\* The order placed 2017-11-24 10:15:00, delivered 2017-11-27 and estimated
\* 2017-11-25 has a fact row with 20171124, 101500, 'TRUE' and 2.
C7_Witness ==
    \E a \in 1..Len(FactRows) :
        /\ HasCalendarDatesAndLine(FactRows[a])
        /\ RawOrder(FactRows[a]).order_date = Some(MkTs(2017, 11, 24, 10, 15, 0))
        /\ RawOrder(FactRows[a]).delivered_date = Some(MkTs(2017, 11, 27, 9, 30, 0))
        /\ RawOrder(FactRows[a]).estimated_time_delivery = Some(MkTs(2017, 11, 25, 0, 0, 0))
        /\ FactRows[a].OrderDateKey = Some(20171124)
        /\ FactRows[a].OrderTimeKey = Some(101500)
        /\ FactRows[a].DeliveryDelayCheck = "TRUE"
        /\ FactRows[a].DeliveryDelayDays = Some(2)

\* C9: in every fact row DeliveryDelayCheck is 'TRUE' when DeliveredDateKey
\* and EstimatedDeliveryDateKey are both non-null and the first is greater,
\* and 'FALSE' in every other case.
C9_DelayCheckFromKeys ==
    \A a \in 1..Len(FactRows) :
        LET r == FactRows[a]
        IN  r.DeliveryDelayCheck =
                IF /\ ~IsNull(r.DeliveredDateKey)
                   /\ ~IsNull(r.EstimatedDeliveryDateKey)
                   /\ Val(r.DeliveredDateKey) > Val(r.EstimatedDeliveryDateKey)
                THEN "TRUE" ELSE "FALSE"

\* The fact table holds a row with 'TRUE' and a row with 'FALSE' for a
\* null key.
C9_Witness ==
    /\ \E a \in 1..Len(FactRows) : FactRows[a].DeliveryDelayCheck = "TRUE"
    /\ \E a \in 1..Len(FactRows) :
           /\ FactRows[a].DeliveryDelayCheck = "FALSE"
           /\ IsNull(FactRows[a].DeliveredDateKey) \/ IsNull(FactRows[a].EstimatedDeliveryDateKey)

\* C10: when the insert has succeeded, the fact table has exactly one row
\* for every raw order and every (product, seller) pair of that order in
\* order_item_d.
C10_OneRowPerOrderAndPair ==
    pc = "df_done" =>
        \A k \in 1..Len(staging["order_dataset"]) :
            \A j \in 1..Len(tdb["order_item_d"]) :
                tdb["order_item_d"][j].order_id = staging["order_dataset"][k].order_id =>
                    Count(FactRows, LAMBDA r :
                              /\ r.OrderID = Some(tdb["order_item_d"][j].order_id)
                              /\ r.ProductID = Some(tdb["order_item_d"][j].product_id)
                              /\ r.SellerID = Some(tdb["order_item_d"][j].seller_id)) = 1

\* ------------------------------------- properties, order and line transformers

\* C11: once the orders are loaded, every raw order appears in orders_d
\* exactly once (as often as in the raw orders), and its feedback_id is a
\* feedback key of that order in feedback_d, or null when the order has no
\* feedback.
C11_OneRowPerRawOrder ==
    "orders_d" \in texists =>
        LET raw == staging["order_dataset"]
            out == tdb["orders_d"]
            fb  == tdb["feedback_d"]
        IN  /\ \A k \in 1..Len(raw) :
                   Count(out, LAMBDA r : r.order_id = raw[k].order_id)
                       = Count(raw, LAMBDA r : r.order_id = raw[k].order_id)
            /\ \A a \in 1..Len(out) :
                   IF \E j \in 1..Len(fb) : fb[j].order_id = out[a].order_id
                   THEN \E j \in 1..Len(fb) :
                            /\ fb[j].order_id = out[a].order_id
                            /\ out[a].feedback_id = Some(fb[j].feedback_id)
                   ELSE IsNull(out[a].feedback_id)

\* C12: when the loop over the datasets has ended on raw line items that are
\* not empty, order_item_d holds exactly one row for each distinct (order id,
\* product id, seller id) of the raw line items, with the product id and the
\* seller id of the raw rows, and no other row.
C12_OneRowPerTriple ==
    (pc = "calendar" /\ staging["order_item_dataset"] # <<>>) =>
        LET raw == staging["order_item_dataset"]
            out == tdb["order_item_d"]
        IN  /\ "order_item_d" \in texists
            /\ \A k \in 1..Len(raw) :
                   Count(out, LAMBDA r : /\ r.order_id = raw[k].order_id
                                         /\ r.product_id = raw[k].product_id
                                         /\ r.seller_id = raw[k].seller_id) = 1
            /\ \A a \in 1..Len(out) :
                   \E k \in 1..Len(raw) : /\ out[a].order_id = raw[k].order_id
                                          /\ out[a].product_id = raw[k].product_id
                                          /\ out[a].seller_id = raw[k].seller_id

\* C13: once the line items are loaded, the quantity of every row of
\* order_item_d is the number of distinct line-item ids among the raw rows of
\* its (order, product, seller) group.
C13_QuantityIsDistinctItemIds ==
    "order_item_d" \in texists =>
        LET raw == staging["order_item_dataset"]
            out == tdb["order_item_d"]
        IN  \A a \in 1..Len(out) :
                out[a].quantity =
                    Cardinality({ raw[k].order_item_id :
                                    k \in { j \in 1..Len(raw) :
                                              /\ raw[j].order_id = out[a].order_id
                                              /\ raw[j].product_id = out[a].product_id
                                              /\ raw[j].seller_id = out[a].seller_id } })

\* ------------------------------------------- properties, feedback and users

\* C14: once the feedback is loaded, feedback_d has as many rows as the raw
\* feedback, in the same order; the feedback_id of row k is the decimal
\* number of earlier raw rows with the same raw id, then '_', then the raw
\* id; the other columns are the raw ones; and no two rows share a
\* feedback_id.
C14_FeedbackKeysSynthesized ==
    "feedback_d" \in texists =>
        LET raw == staging["feedback_dataset"]
            out == tdb["feedback_d"]
            pieces(k) == StrSplit(out[k].feedback_id, << "_" >>)
        IN  /\ Len(out) = Len(raw)
            /\ \A k \in 1..Len(out) :
                   /\ Len(pieces(k)) >= 2
                   /\ \A c \in 1..Len(pieces(k)[1]) : pieces(k)[1][c] \in Range(Digits)
                   /\ StrToInt(pieces(k)[1]) =
                          Cardinality({j \in 1..(k - 1) : raw[j].feedback_id = raw[k].feedback_id})
                   /\ StrJoin(<< "_" >>, Tail(pieces(k))) = raw[k].feedback_id
                   /\ out[k] = [raw[k] EXCEPT !.feedback_id = out[k].feedback_id]
            /\ \A a, b \in 1..Len(out) : a # b => out[a].feedback_id # out[b].feedback_id

\* The feedback is loaded from two raw rows, of which the second has the raw
\* id that the first was given as its key: the keys are '0_f' and '0_0_f'.
C14_Witness ==
    /\ "feedback_d" \in texists
    /\ Len(staging["feedback_dataset"]) = 2
    /\ tdb["feedback_d"][1].feedback_id = staging["feedback_dataset"][2].feedback_id
    /\ tdb["feedback_d"][1].feedback_id # tdb["feedback_d"][2].feedback_id

\* The raw rows of user u, in the order of the raw table.
RawRowsOfUser(u) == SelectSeq(staging["user_dataset"], LAMBDA r : r.user_name = u)

\* merged lists every value of vals exactly once, in order of first
\* appearance, joined by ', '.
ListsDistinctInOrder(merged, vals) ==
    LET listed == StrSplit(merged, << ",", " " >>)
        first(v) == CHOOSE k \in 1..Len(vals) : vals[k] = v /\ \A j \in 1..(k - 1) : vals[j] # v
    IN  /\ Range(listed) = Range(vals)
        /\ \A a, b \in 1..Len(listed) : a < b => first(listed[a]) < first(listed[b])

\* C20: once the users are loaded, users_d has exactly one row for each user
\* id of the raw users and no other row, and the ZIP code, the city and the
\* state of a row each list every distinct value of the user's raw rows (as
\* text, city and state with capitalised words) exactly once, in order of
\* first appearance, joined by ', '.
C20_UsersMergedPerId ==
    "users_d" \in texists =>
        LET raw == staging["user_dataset"]
            out == tdb["users_d"]
        IN  /\ \A k \in 1..Len(raw) : Count(out, LAMBDA r : r.user_id = raw[k].user_name) = 1
            /\ \A a \in 1..Len(out) :
                   LET mine == RawRowsOfUser(out[a].user_id)
                   IN  /\ mine # <<>>
                       /\ ListsDistinctInOrder(out[a].user_zip_code,
                              [k \in 1..Len(mine) |-> IntToStr(mine[k].customer_zip_code)])
                       /\ ListsDistinctInOrder(out[a].user_city,
                              [k \in 1..Len(mine) |-> StrTitle(mine[k].customer_city)])
                       /\ ListsDistinctInOrder(out[a].user_state,
                              [k \in 1..Len(mine) |-> StrTitle(mine[k].customer_state)])

\* Two raw rows of one user, with ZIP codes 12 then 11 and one city, have
\* been merged into one row: '12, 11' and the city once.
C20_Witness ==
    /\ "users_d" \in texists
    /\ Len(staging["user_dataset"]) = 2
    /\ Len(tdb["users_d"]) = 1
    /\ tdb["users_d"][1].user_zip_code = << "1", "2", ",", " ", "1", "1" >>
    /\ tdb["users_d"][1].user_city = StrTitle(staging["user_dataset"][1].customer_city)

\* ------------------------------------------- properties, shipping and failure

\* C19: the ShippingDays of every fact row is the day of the raw delivered
\* timestamp of its order minus the day of the raw pickup timestamp, negative
\* when the pickup is on a later day than the delivery, and null when either
\* timestamp is missing; whether the days are in the calendar plays no part.
C19_ShippingDaysUnclamped ==
    \A a \in 1..Len(FactRows) :
        LET o == RawOrder(FactRows[a])
        IN  FactRows[a].ShippingDays =
                IF IsNull(o.delivered_date) \/ IsNull(o.pickup_date) THEN Null
                ELSE Some(DayOrdinal(Val(o.delivered_date)) - DayOrdinal(Val(o.pickup_date)))

\* The fact table holds a row with a negative ShippingDays and a row whose
\* delivered day is after the calendar's last day and whose ShippingDays is
\* present all the same.
C19_Witness ==
    /\ \E a \in 1..Len(FactRows) :
           /\ ~IsNull(FactRows[a].ShippingDays)
           /\ Val(FactRows[a].ShippingDays) < 0
    /\ \E a \in 1..Len(FactRows) :
           /\ ~IsNull(RawOrder(FactRows[a]).delivered_date)
           /\ ~InCalendar(RawOrder(FactRows[a]).delivered_date)
           /\ IsNull(FactRows[a].DeliveredDateKey)
           /\ ~IsNull(FactRows[a].ShippingDays)
           /\ Val(FactRows[a].ShippingDays) > 0

\* C18: when a run of Dim&fact.main has ended on a step that raised, the
\* fact table is absent, or it holds exactly the rows it held when the run
\* began (snap: the tables as the run before left them, none before a first
\* run).
C18_FailedRunLeavesFactAbsentOrStale ==
    pc = "df_failed" =>
        \/ "fact_order_items" \notin texists
        \/ /\ "fact_order_items" \in snap.exists
           /\ tdb["fact_order_items"] = snap.rows["fact_order_items"]

\* ------------------------------------------ properties, failures of a run

\* Whether the transformer of dataset name gives no frame for its staging
\* table.
TransformFails(name) ==
    IF name = "order_dataset"
    THEN ~transform_orders_table(staging[name],
              transform_feedback_table(staging["feedback_dataset"]).df).ok
    ELSE ~Transform(name, staging[name]).ok

\* The datasets dict, lines 306-314: only the orders have depends_on, the
\* feedback.
DependsOn(name, other) == name = "order_dataset" /\ other = "feedback_dataset"

\* At the end of a first run, the table of a dataset whose transform failed
\* is not in the schema, and when the store was reachable throughout, the
\* tables of the datasets that transform and do not depend on it are, and the
\* two calendar tables.
SkippedAlone(name) ==
    TransformFails(name) =>
        /\ TargetTable(name) \notin texists
        /\ faults = 0 =>
               /\ \A other \in Range(DatasetNames) \ {name} :
                      (~TransformFails(other) /\ ~DependsOn(other, name))
                          => TargetTable(other) \in texists
               /\ CalendarTables \subseteq texists

\* C15 as stated: when a first run has ended, every dataset whose transform
\* failed, the feedback included, has been skipped alone: its table is not
\* loaded and every step that does not depend on it has been executed.
C15_FailedTransformSkippedAlone ==
    pc = "done" => \A name \in Range(DatasetNames) : SkippedAlone(name)

\* C15: when a first run has ended, every dataset other than the feedback
\* whose transform failed has been skipped alone: its table is not loaded and
\* the other steps have been executed; and when the transform of the feedback
\* failed, the run has loaded no table and generated no calendar.
C15_FailedTransformSkippedOrRunEnded ==
    pc = "done" =>
        IF TransformFails("feedback_dataset") THEN texists = {}
        ELSE \A name \in Range(DatasetNames) : SkippedAlone(name)

\* A run on a reachable store has ended with the table of one dataset not
\* loaded, because its transform failed, and with all the others and the
\* calendar loaded.
C15_Witness ==
    /\ pc = "done"
    /\ faults = 0
    /\ \E name \in Range(DatasetNames) :
           /\ TransformFails(name)
           /\ texists = ({ TargetTable(other) : other \in Range(DatasetNames) \ {name} }
                            \cup CalendarTables)

\* C16: in a first run, orders_d is in the schema only when feedback_d is:
\* the orders are transformed and written only after the feedback dimension
\* has been written.
C16_OrdersOnlyAfterFeedbackWritten ==
    "orders_d" \in texists => "feedback_d" \in texists

\* C17: once a statement of the run has found the store unreachable, the run
\* takes no further step: no table is fetched, transformed or loaded.
C17_StoreErrorEndsRun ==
    [][faults > 0 => UNCHANGED << tdb, texists, pkeys, feedback_df, pc, ds_idx, faults >>]_vars

\* ------------------------------------------- properties, calendar attributes

\* The season and the quarter of each month, January first.
SeasonOfMonth ==
    << "Winter", "Winter", "Spring", "Spring", "Spring", "Summer",
       "Summer", "Summer", "Fall", "Fall", "Fall", "Winter" >>

QuarterOfMonth == << 1, 1, 1, 2, 2, 2, 3, 3, 3, 4, 4, 4 >>

\* In the frame of dates, whose first day 2016-04-09 was a Saturday (weekday
\* index 5) and whose rows are consecutive days: Season and Quarter are those
\* of the month, DayOfWeek advances by one a day, and IsWeekend is 1 on the
\* rows of weekday index 5 or 6 and 0 on the others.
DateAttributesExact ==
    \A k \in 1..Len(date_df) :
        /\ date_df[k].Month = date_df[k].Date.m
        /\ date_df[k].Season = SeasonOfMonth[date_df[k].Month]
        /\ date_df[k].Quarter = QuarterOfMonth[date_df[k].Month]
        /\ date_df[k].DayOfWeek = (5 + k - 1) % 7
        /\ date_df[k].IsWeekend \in {0, 1}
        /\ (date_df[k].IsWeekend = 1) = (date_df[k].DayOfWeek \in {5, 6})

\* C21: in the date table that create_date_and_time_tables has written, Season
\* depends on the month alone (12, 1, 2 Winter; 3-5 Spring; 6-8 Summer; 9-11
\* Fall), Quarter is (month - 1) div 3 + 1, and IsWeekend is 1 exactly on
\* the days of weekday index 5 or 6 (0 = Monday).
C21_DateAttributes ==
    (pc = "keys" /\ "date_d" \in texists) =>
        RowsOf(Db, "date_d") = date_df /\ DateAttributesExact

\* The date table is written and holds a July day that is a Summer Saturday
\* and a January day that is a Winter Monday.
C21_Witness ==
    /\ pc = "keys"
    /\ "date_d" \in texists
    /\ LET rows == RowsOf(Db, "date_d")
       IN  /\ rows[85].Date = MkDate(2016, 7, 2)
           /\ rows[85].Season = "Summer" /\ rows[85].Quarter = 3 /\ rows[85].IsWeekend = 1
           /\ rows[269].Date = MkDate(2017, 1, 2)
           /\ rows[269].Season = "Winter" /\ rows[269].Quarter = 1 /\ rows[269].IsWeekend = 0

\* The time-of-day label of each hour, hour 0 first.
LabelOfHour ==
    [h \in 0..23 |-> IF h <= 5 THEN "Night" ELSE IF h <= 11 THEN "Morning"
                     ELSE IF h <= 17 THEN "Afternoon" ELSE "Evening"]

\* In the frame of times: Second is 0, TimeKey is Hour*10000 + Minute*100 and
\* no two rows share it, AM_PM is 'AM' below hour 12 and 'PM' from it on, and
\* TimeOfDay is present and is the label of the hour.
TimeAttributesExact ==
    /\ \A k \in 1..Len(times_df) :
           /\ times_df[k].Hour \in 0..23
           /\ times_df[k].Minute \in 0..59
           /\ times_df[k].Second = 0
           /\ times_df[k].TimeKey = times_df[k].Hour * 10000 + times_df[k].Minute * 100
           /\ times_df[k].AM_PM \in {"AM", "PM"}
           /\ (times_df[k].AM_PM = "AM") = (times_df[k].Hour < 12)
           /\ times_df[k].TimeOfDay = Some(LabelOfHour[times_df[k].Hour])
    /\ Cardinality({ times_df[k].TimeKey : k \in 1..Len(times_df) }) = 1440
    /\ Len(times_df) = 1440

\* C22: in the time table that create_date_and_time_tables has written, every
\* row has Second = 0 and TimeKey = Hour*10000 + Minute*100, the 1440 rows
\* have 1440 different TimeKeys, AM_PM is 'AM' exactly when Hour < 12, and
\* TimeOfDay is Night for hours 0-5, Morning for 6-11, Afternoon for 12-17
\* and Evening for 18-23, missing for no hour.
C22_TimeAttributes ==
    (pc = "keys" /\ "times_d" \in texists) =>
        RowsOf(Db, "times_d") = times_df /\ TimeAttributesExact

\* The time table is written; its first row is 00:00, a Night row with key
\* 0, row 06:00 is a Morning row and its last row is 23:59, an Evening row
\* with key 235900.
C22_Witness ==
    /\ pc = "keys"
    /\ "times_d" \in texists
    /\ LET rows == RowsOf(Db, "times_d")
       IN  /\ rows[1].Hour = 0 /\ rows[1].TimeKey = 0 /\ rows[1].TimeOfDay = Some("Night")
           /\ rows[361].Hour = 6 /\ rows[361].Minute = 0 /\ rows[361].TimeOfDay = Some("Morning")
           /\ rows[1440].TimeKey = 235900 /\ rows[1440].AM_PM = "PM"
           /\ rows[1440].TimeOfDay = Some("Evening")

\* ------------------------------------------ properties, delay and revenue

\* In the frame of dates the DateKey grows with the day.
DateKeyIncreasing ==
    \A k \in 1..(Len(date_df) - 1) : date_df[k].DateKey < date_df[k + 1].DateKey

\* C26: on every fact row DeliveryDelayCheck is 'TRUE' exactly when
\* DeliveryDelayDays is present and greater than 0; and the DateKey of the
\* date table grows with the day, on which the agreement rests.
C26_DelayMeasuresAgree ==
    /\ \A a \in 1..Len(FactRows) :
           (FactRows[a].DeliveryDelayCheck = "TRUE")
               = (~IsNull(FactRows[a].DeliveryDelayDays) /\ Val(FactRows[a].DeliveryDelayDays) > 0)
    /\ FactRows # <<>> => DateKeyIncreasing

\* The fact table holds a late row whose delivered day is in January and
\* whose estimated day is in the December before ('TRUE', 3 days), and a row
\* delivered before its estimate ('FALSE', 0 days).
C26_Witness ==
    /\ \E a \in 1..Len(FactRows) :
           /\ FactRows[a].DeliveryDelayCheck = "TRUE"
           /\ FactRows[a].DeliveryDelayDays = Some(3)
           /\ FactRows[a].DeliveredDateKey = Some(20180102)
           /\ FactRows[a].EstimatedDeliveryDateKey = Some(20171230)
    /\ \E a \in 1..Len(FactRows) :
           /\ FactRows[a].DeliveryDelayCheck = "FALSE"
           /\ FactRows[a].DeliveryDelayDays = Some(0)

\* Dashboard.fetch_key_metrics, "total_revenue": SELECT SUM(PaymentValue) FROM
\* fact_order_items; SUM skips the NULLs, and the dashboard shows 0 for the
\* NULL of an empty sum.
total_revenue(db) ==
    SumSeq(RowsOf(db, "fact_order_items"),
           LAMBDA r : IF IsNull(r.PaymentValue) THEN 0 ELSE Val(r.PaymentValue))

\* The order ids of the fact rows.
FactOrderIds == { Val(FactRows[a].OrderID) : a \in 1..Len(FactRows) }

\* C27: when the insert has succeeded, the total revenue of the dashboard is
\* the sum of the raw payment values of the orders that have a fact row,
\* every raw payment counted once.
C27_RevenueCountsPaymentsOnce ==
    pc = "df_done" =>
        total_revenue(Db) =
            SumSeq(SelectSeq(staging["payment_dataset"], LAMBDA r : r.order_id \in FactOrderIds),
                   LAMBDA r : r.payment_value)

\* ------------------------------------------ properties, calendar joins

\* The five temporal roles of a fact row: the timestamp column of the order,
\* the date key and the time key of the fact row.
TemporalRoles ==
    << << "order_date", "OrderDateKey", "OrderTimeKey" >>,
       << "delivered_date", "DeliveredDateKey", "DeliveredTimeKey" >>,
       << "estimated_time_delivery", "EstimatedDeliveryDateKey", "EstimatedDeliveryTimeKey" >>,
       << "order_approved_date", "OrderApprovedDateKey", "OrderApprovedTimeKey" >>,
       << "pickup_date", "PickupDateKey", "PickupTimeKey" >> >>

\* The keys of role of fact row r are those of the raw timestamp.
RoleKeysFromTimestamp(r, role) ==
    LET ts == RawOrder(r)[role[1]]
    IN  /\ r[role[3]] = IF IsNull(ts) THEN Null
                        ELSE Some(Val(ts).hh * 10000 + Val(ts).mi * 100)
        /\ r[role[2]] = IF InCalendar(ts)
                        THEN Some(Val(ts).y * 10000 + Val(ts).m * 100 + Val(ts).d)
                        ELSE Null

\* C28: for each of the five temporal roles of a fact row, the time key is
\* hour*10000 + minute*100 of the order's timestamp whenever there is one
\* (and null otherwise), and the date key is year*10000 + month*100 + day
\* when the day is in the calendar (2016-04-09..2018-10-17) and null when it
\* is not; and the calendar joins add no row: an order has as many fact rows
\* as orders_d has rows for it, times its rows of order_item_d when it has
\* any.
C28_CalendarKeysPerRole ==
    /\ \A a \in 1..Len(FactRows) :
           \A k \in 1..Len(TemporalRoles) : RoleKeysFromTimestamp(FactRows[a], TemporalRoles[k])
    /\ pc = "df_done" =>
           \A k \in 1..Len(staging["order_dataset"]) :
               LET id    == staging["order_dataset"][k].order_id
                   lines == Count(tdb["order_item_d"], LAMBDA r : r.order_id = id)
               IN  Count(FactRows, LAMBDA r : r.OrderID = Some(id))
                       = Count(tdb["orders_d"], LAMBDA r : r.order_id = id)
                             * (IF lines = 0 THEN 1 ELSE lines)

\* The fact table holds the row of an order delivered on 2018-10-18 at
\* 12:00, the day after the calendar ends (no date key, time key 120000),
\* and the row of an order placed on 2016-04-09 at 00:00:42 (date key
\* 20160409, time key 0).
C28_Witness ==
    /\ pc = "df_done"
    /\ \E a \in 1..Len(FactRows) :
           /\ IsNull(FactRows[a].DeliveredDateKey)
           /\ FactRows[a].DeliveredTimeKey = Some(120000)
    /\ \E a \in 1..Len(FactRows) :
           /\ FactRows[a].OrderDateKey = Some(20160409)
           /\ FactRows[a].OrderTimeKey = Some(0)
           /\ RawOrder(FactRows[a]).order_date = Some(MkTs(2016, 4, 9, 0, 0, 42))

\* ------------------------------------------ properties, no order lost

\* Order row o of orders_d is in at least one fact row.
InFactTable(o) == \E a \in 1..Len(FactRows) : FactRows[a].OrderID = Some(o.order_id)

\* C30: once insert_into_fact_order_items has run on the fact table of the
\* run, every order of orders_d is in at least one fact row; the order of an
\* unknown user is one of the orders that are to be kept, so the insert is
\* to succeed for it.
C30_NoOrderLost ==
    ("fact_order_items" \in texists /\ pc \in {"df_done", "df_failed"}) =>
        \A k \in 1..Len(tdb["orders_d"]) : InFactTable(tdb["orders_d"][k])

\* ------------------------------------------------------ fullload.py

\* A cell of a frame read with dtype=str: text that parses as a number, text
\* that parses as a timestamp, any other text, or a missing value.
Num(n) == [ kind |-> "num", v |-> n ]
Ts(t) == [ kind |-> "ts", v |-> t ]
Txt(s) == [ kind |-> "txt", v |-> s ]
NaN == [ kind |-> "nan" ]

\* The cells of column col of frame df.
Cells(df, col) == { df[k][col] : k \in 1..Len(df) }

\* preprocess_and_infer_schema: a column with a numeric cell becomes numeric
\* and its other cells 0; else a column with a timestamp cell becomes
\* DateTime and its other cells NaT; any other column is text and its
\* missing cells the empty string.
InferredType(df, col) ==
    IF \E c \in Cells(df, col) : c.kind = "num" THEN "Numeric"
    ELSE IF \E c \in Cells(df, col) : c.kind = "ts" THEN "DateTime"
    ELSE "String"

PreprocessCell(type, c) ==
    CASE type = "Numeric"  -> IF c.kind = "num" THEN c.v ELSE 0
      [] type = "DateTime" -> IF c.kind = "ts" THEN Some(c.v) ELSE Null
      [] type = "String"   -> IF c.kind = "nan" THEN <<>> ELSE c.v

preprocess_and_infer_schema(df) ==
    [ k \in 1..Len(df) |->
        [ col \in DOMAIN df[k] |-> PreprocessCell(InferredType(df, col), df[k][col]) ] ] \o <<>>

\* os.listdir: the CSV files of the directory, named after their tables.
CsvFiles == << "payment_dataset", "feedback_dataset" >>

\* process_csv_files goes to the next file, or ends.
NextFile ==
    IF ds_idx < Len(CsvFiles)
    THEN pc' = "csv_create" /\ ds_idx' = ds_idx + 1
    ELSE pc' = "csv_done" /\ UNCHANGED ds_idx

\* create_table: drops the table if it exists and creates it.
create_table ==
    /\ pc = "csv_create"
    /\ sexists' = sexists \cup { CsvFiles[ds_idx] }
    /\ staging' = [staging EXCEPT ![CsvFiles[ds_idx]] = <<>>]
    /\ pc' = "csv_load"
    /\ UNCHANGED << tdb, texists, pkeys, feedback_df, ds_idx, later_run, snap, faults, csv, page >>

\* create_table when has_table or the drop raises: the error is printed and
\* the table is left as it was.
CreateTableDropFails ==
    /\ pc = "csv_create"
    /\ StoreFails
    /\ pc' = "csv_load"
    /\ UNCHANGED << staging, tdb, texists, pkeys, feedback_df, ds_idx, later_run, snap, csv, sexists, page >>

\* create_table when create_all raises, after the drop: the error is
\* printed and the table is gone.
CreateTableCreateFails ==
    /\ pc = "csv_create"
    /\ StoreFails
    /\ sexists' = sexists \ { CsvFiles[ds_idx] }
    /\ staging' = [staging EXCEPT ![CsvFiles[ds_idx]] = <<>>]
    /\ pc' = "csv_load"
    /\ UNCHANGED << tdb, texists, pkeys, feedback_df, ds_idx, later_run, snap, csv, page >>

\* fullload.load_data: to_sql(if_exists='append') creates the table when it
\* is missing and adds the rows of the frame to it.
LoadData ==
    /\ pc = "csv_load"
    /\ sexists' = sexists \cup { CsvFiles[ds_idx] }
    /\ staging' = [staging EXCEPT ![CsvFiles[ds_idx]] =
                       @ \o preprocess_and_infer_schema(csv[CsvFiles[ds_idx]])]
    /\ NextFile
    /\ UNCHANGED << tdb, texists, pkeys, feedback_df, later_run, snap, faults, csv, page >>

\* fullload.load_data when to_sql raises: the error is printed, no row is
\* added.
LoadDataFails ==
    /\ pc = "csv_load"
    /\ StoreFails
    /\ NextFile
    /\ UNCHANGED << staging, tdb, texists, pkeys, feedback_df, later_run, snap, csv, sexists, page >>

\* The raw loader is run again over the same directory.
RunLoaderAgain ==
    /\ pc = "csv_done"
    /\ pc' = "csv_create"
    /\ ds_idx' = 1
    /\ later_run' = TRUE
    /\ UNCHANGED << staging, tdb, texists, pkeys, feedback_df, snap, faults, csv, sexists, page >>

\* The frames of payment_dataset.csv and feedback_dataset.csv.
PaymentFrames ==
    { << [ order_id |-> Txt(o1), payment_value |-> Num(500) ] >>,
      << [ order_id |-> Txt(o1), payment_value |-> Num(500) ],
         [ order_id |-> Txt(o2), payment_value |-> NaN ] >>,
      << [ order_id |-> Txt(o1), payment_value |-> NaN ] >> }

FeedbackFrames ==
    { << [ order_id |-> Txt(o1), feedback_answer_date |-> Ts(MkTs(2017, 11, 28, 0, 0, 0)) ],
         [ order_id |-> NaN, feedback_answer_date |-> Txt(sDash) ] >>,
      << [ order_id |-> Txt(o2), feedback_answer_date |-> NaN ] >> }

LoaderInputs ==
    { [NoFiles EXCEPT !["payment_dataset"] = p, !["feedback_dataset"] = f] :
      p \in PaymentFrames, f \in FeedbackFrames }

InitLoad ==
    /\ csv \in LoaderInputs
    /\ staging = NoFiles
    /\ sexists = {}
    /\ tdb = EmptyDb.rows
    /\ texists = {}
    /\ pkeys = {}
    /\ feedback_df = <<>>
    /\ pc = "csv_create"
    /\ ds_idx = 1
    /\ later_run = FALSE
    /\ snap = EmptyDb
    /\ faults = 0
    /\ page = <<>>

NextLoad ==
    \/ create_table
    \/ CreateTableDropFails
    \/ CreateTableCreateFails
    \/ LoadData
    \/ LoadDataFails
    \/ RunLoaderAgain

SpecLoad == InitLoad /\ [][NextLoad]_vars

\* --------------------------------------------- properties, raw loader

\* C24: whatever the runs of the raw loader over the same CSV files and
\* whatever error the drop or the create of a run reported, the rows of
\* earlier runs never accumulate: a staging table holds the rows of its
\* file exactly once (or none, between the create and the insert of a run
\* or after an insert that failed).
C24_StagingHoldsCsvOnce ==
    \A k \in 1..Len(CsvFiles) :
        staging[CsvFiles[k]] \in { <<>>, preprocess_and_infer_schema(csv[CsvFiles[k]]) }

\* --------------------------------------- properties, unparseable dates

\* C25: text that does not parse in a timestamp column of the raw orders
\* (order_date, delivered_date, estimated_time_delivery,
\* order_approved_date, pickup_date) does not make transform_orders_table
\* fail: once orders_d is written, every raw order has its row there, with
\* the missing marker in place of the text and every other timestamp as it
\* was.
C25_UnparseableDateBecomesMissing ==
    ("orders_d" \in texists /\ HasColumns(staging["order_dataset"], OrderTimestampColumns)) =>
        \A k \in 1..Len(staging["order_dataset"]) :
            \E a \in 1..Len(tdb["orders_d"]) :
                /\ tdb["orders_d"][a].order_id = staging["order_dataset"][k].order_id
                /\ \A col \in OrderTimestampColumns :
                       tdb["orders_d"][a][col] = ToDatetimeCoerce(staging["order_dataset"][k][col])

\* ------------------------------------------- the two scripts, run in turn

\* The statements at which no script is running.
Idle == { "done", "df_done", "df_failed" }

\* Intermediate_table.py is started on the schema as the last script left it.
StartTransform ==
    /\ pc \in Idle
    /\ pc' = "schema"
    /\ later_run' = TRUE
    /\ snap' = Db
    /\ ds_idx' = 1
    /\ feedback_df' = <<>>
    /\ faults' = 0
    /\ UNCHANGED << staging, tdb, texists, pkeys, csv, sexists, page >>

\* Dim&fact.py is started on the schema as the last script left it.
StartDimFact ==
    /\ pc \in Idle
    /\ pc' = "dim_users"
    /\ later_run' = TRUE
    /\ snap' = Db
    /\ ds_idx' = 1
    /\ feedback_df' = <<>>
    /\ UNCHANGED << staging, tdb, texists, pkeys, csv, sexists, page, faults >>

\* The baseline; the baseline with one staging table that lacks a column its
\* transformer reads; the baseline with an order of a user who is not among
\* the users.
PipelineStagingInputs ==
    { Baseline } \cup
    { [Baseline EXCEPT ![name] = WithoutColumn(@, DroppedColumn[name])] :
          name \in DOMAIN DroppedColumn } \cup
    { [Baseline EXCEPT !.order_dataset = << [@[1] EXCEPT !.user_name = u9] >>] }

InitPipeline ==
    /\ staging \in PipelineStagingInputs
    /\ tdb = EmptyDb.rows
    /\ texists = {}
    /\ pkeys = {}
    /\ feedback_df = <<>>
    /\ pc = "schema"
    /\ ds_idx = 1
    /\ later_run = FALSE
    /\ snap = EmptyDb
    /\ faults = 0
    /\ csv = NoFiles
    /\ sexists = StagingTables
    /\ page = <<>>

NextPipeline ==
    \/ NextFault
    \/ NextFact
    \/ StartTransform
    \/ StartDimFact

SpecPipeline == InitPipeline /\ [][NextPipeline]_vars

\* ------------------------------------- properties, referenced tables

\* C29: whenever fact_order_items exists, every table its foreign keys
\* reference exists (dim_users, dim_feedbacks, dim_payments, dim_products,
\* dim_sellers, date_d, times_d); and from the end of create_dim_users to the
\* start of create_fact_order_items, while Dim&fact.main rebuilds the
\* dimension tables, there is no fact table.
C29_ReferencedTablesExist ==
    /\ "fact_order_items" \in texists => Referenced \subseteq texists
    /\ pc \in { "dim_feedbacks", "dim_payments", "dim_products", "dim_sellers", "create_fact" }
           => "fact_order_items" \notin texists

\* Intermediate_table.py has run to its end on a schema that held the fact
\* table of an earlier run, and the fact table is still there.
C29_Witness ==
    /\ pc = "done"
    /\ "fact_order_items" \in snap.exists
    /\ "fact_order_items" \in texists
    /\ tdb["fact_order_items"] # <<>>

\* ------------------------------------------------------------ Dashboard.py

\* Dim&fact.main, lines 306-326, from its first statement to its last on the
\* transform schema db: function k of the seven, and the schema after the
\* functions from k on, of which the first that raises ends the script.
DimFactFunction(k, db) ==
    CASE k = 1 -> create_dim_users(db)
      [] k = 2 -> create_dim_feedbacks(db)
      [] k = 3 -> create_dim_payments(db)
      [] k = 4 -> create_dim_products(db)
      [] k = 5 -> create_dim_sellers(db)
      [] k = 6 -> create_fact_order_items(db)
      [] k = 7 -> insert_into_fact_order_items(db)

RECURSIVE DimFactFrom(_, _)
DimFactFrom(k, db) ==
    IF k > 7 THEN db
    ELSE CHOOSE d \in { IF r.ok THEN DimFactFrom(k + 1, r.db) ELSE r.db :
                          r \in { DimFactFunction(k, db) } } : TRUE

DimFact_main(db) == DimFactFrom(1, db)

\* The parts of the page in the order of the script (lines 276-740), and
\* the fetch function each one calls first, if any.
DashSections ==
    << "introduction", "key_metrics", "payment_distribution", "sunburst_data",
       "order_distribution_months", "peak_order_times", "total_orders_by_season",
       "avg_delivery_delay_by_feedback", "logistics_metrics", "geographic_analysis",
       "business_recommendations" >>

\* The tables the query of a fetch function reads; none for a part of the
\* page that shows fixed text and figures.
TablesRead(section) ==
    CASE section = "key_metrics"                    -> { "fact_order_items" }
      [] section = "payment_distribution"           -> { "fact_order_items", "dim_payments" }
      [] section = "sunburst_data"                  -> { "fact_order_items", "dim_products", "dim_payments" }
      [] section = "order_distribution_months"      -> { "fact_order_items", "date_d" }
      [] section = "peak_order_times"               -> { "fact_order_items" }
      [] section = "total_orders_by_season"         -> { "fact_order_items", "date_d" }
      [] section = "avg_delivery_delay_by_feedback" -> { "fact_order_items", "dim_feedbacks" }
      [] section = "logistics_metrics"              -> { "fact_order_items", "dim_sellers", "dim_users" }
      [] OTHER                                      -> {}

QuerySections == { s \in Range(DashSections) : TablesRead(s) # {} }

\* What the page shows: a part of the page as the script lays it out, the
\* message of st.error, the exception that Streamlit shows when the script
\* ends with one.
Rendered(section) == [ kind |-> "section", name |-> section ]
ErrorMessage(section) == [ kind |-> "st.error", name |-> section ]
UncaughtException(section) == [ kind |-> "exception", name |-> section ]

\* A fetch function whose query raises: the except block calls st.error and
\* raises again; nothing at module level catches the exception, and the
\* script ends there.
FetchRaises(section) ==
    /\ page' = page \o << ErrorMessage(section), UncaughtException(section) >>
    /\ pc' = "dash_raised"
    /\ UNCHANGED ds_idx

\* The script goes on to the next part of the page, or ends.
NextSection ==
    IF ds_idx < Len(DashSections)
    THEN pc' = "dash" /\ ds_idx' = ds_idx + 1
    ELSE pc' = "dash_done" /\ UNCHANGED ds_idx

\* Line 304: configure_database reads config.ini and makes the engine,
\* which does not connect yet.
ConfigureDatabase ==
    /\ pc = "dash_config"
    /\ page' = << Rendered(DashSections[1]) >>
    /\ pc' = "dash"
    /\ ds_idx' = 2
    /\ UNCHANGED << staging, tdb, texists, pkeys, feedback_df, later_run, snap, csv, sexists, faults >>

\* Lines 18-34: config.ini cannot be read; st.error, then raise.
ConfigureDatabaseFails ==
    /\ pc = "dash_config"
    /\ page' = << Rendered(DashSections[1]), ErrorMessage("configure_database"),
                  UncaughtException("configure_database") >>
    /\ pc' = "dash_raised"
    /\ UNCHANGED << staging, tdb, texists, pkeys, feedback_df, ds_idx, later_run, snap, csv, sexists,
                    faults >>

\* One part of the page: its fetch function runs its query, which raises
\* when a table it reads does not exist, and the part is laid out.
RenderSection ==
    /\ pc = "dash"
    /\ IF TablesRead(DashSections[ds_idx]) \subseteq texists
       THEN page' = Append(page, Rendered(DashSections[ds_idx])) /\ NextSection
       ELSE FetchRaises(DashSections[ds_idx])
    /\ UNCHANGED << staging, tdb, texists, pkeys, feedback_df, later_run, snap, csv, sexists, faults >>

\* One part of the page whose query cannot reach the store.
FetchStoreFails ==
    /\ pc = "dash"
    /\ DashSections[ds_idx] \in QuerySections
    /\ StoreFails
    /\ FetchRaises(DashSections[ds_idx])
    /\ UNCHANGED << staging, tdb, texists, pkeys, feedback_df, later_run, snap, csv, sexists >>

\* The page is loaded again.
Rerun ==
    /\ pc \in { "dash_done", "dash_raised" }
    /\ pc' = "dash_config"
    /\ page' = <<>>
    /\ ds_idx' = 1
    /\ later_run' = TRUE
    /\ UNCHANGED << staging, tdb, texists, pkeys, feedback_df, snap, csv, sexists, faults >>

\* The page is opened on the transform schema of a new store, or as
\* Intermediate_table.py left it, or as Dim&fact.py left it after that.
InitDash ==
    /\ staging \in PipelineStagingInputs
    /\ \E db \in { EmptyDb, Intermediate_main(staging, EmptyDb),
                   DimFact_main(Intermediate_main(staging, EmptyDb)) } :
           /\ tdb = db.rows
           /\ texists = db.exists
           /\ pkeys = db.keys
    /\ feedback_df = <<>>
    /\ pc = "dash_config"
    /\ ds_idx = 1
    /\ later_run = FALSE
    /\ snap = EmptyDb
    /\ faults = 0
    /\ csv = NoFiles
    /\ sexists = StagingTables
    /\ page = <<>>

NextDash ==
    \/ ConfigureDatabase
    \/ ConfigureDatabaseFails
    \/ RenderSection
    \/ FetchStoreFails
    \/ Rerun

SpecDash == InitDash /\ [][NextDash]_vars

\* ------------------------------------------- properties, dashboard errors

\* C23: a query of the dashboard that fails is shown as an inline message
\* and the page goes on: the fetch function does not let the exception
\* out, so the script does not end there, and when the script has ended
\* every part of the page after the failing query has been laid out.
C23_QueryErrorShownInline ==
    \A k \in 1..Len(page) :
        (page[k].kind = "st.error" /\ page[k].name \in QuerySections) =>
            /\ pc # "dash_raised"
            /\ pc = "dash_done" =>
                   \A s \in Range(DashSections) : \E j \in 1..Len(page) : page[j].name = s

=============================================================================
